---- MODULE Spec2Model ----
(***************************************************************************)
(* Model of the expression pipeline of AI_Generated/Project_1:             *)
(*   parser.py     MathParser.tokenize / validate_syntax /                 *)
(*                 parse_to_postfix / parse_expression                     *)
(*   evaluator.py  MathEvaluator.evaluate_postfix / evaluate_expression    *)
(* An expression is a sequence of one-character strings.  One call of      *)
(* evaluate_expression is one behaviour: Begin, the tokenizer loop, the    *)
(* validator, the converter loop, the evaluator loop, and the result.      *)
(***************************************************************************)
EXTENDS Integers, Sequences, FiniteSets, TLC

VARIABLES expression, variables, pc, expr, position, tokens, output,
          operator_stack, tidx, postfix, stack, eidx, result, calls, history

vars == <<expression, variables, pc, expr, position, tokens, output,
          operator_stack, tidx, postfix, stack, eidx, result, calls, history>>

(***************************************************************************)
(* Characters and lexemes                                                  *)
(***************************************************************************)
Digits == {"0", "1", "2", "3", "4", "5", "6", "7", "8", "9"}

Letters == {"a", "b", "c", "d", "e", "f", "g", "h", "i", "j", "k", "l", "m",
            "n", "o", "p", "q", "r", "s", "t", "u", "v", "w", "x", "y", "z",
            "E"}

\* str.isdigit, str.isalpha, str.isalnum on one character
IsDigit(c) == c \in Digits

IsAlpha(c) == c \in Letters

IsAlnum(c) == IsDigit(c) \/ IsAlpha(c)

\* str.lower on one character (only "E" is an upper-case letter here)
Lower(c) == IF c = "E" THEN "e" ELSE c

\* TokenType
TokenType == {"NUMBER", "VARIABLE", "OPERATOR", "FUNCTION", "LEFT_PAREN",
              "RIGHT_PAREN", "COMMA", "CONSTANT", "EOF"}

\* Token(token_type, value, position)
Token(t, v, p) == [type |-> t, value |-> v, position |-> p]

(***************************************************************************)
(* MathParser.__init__ : the parser's tables                               *)
(***************************************************************************)
\* variant of operators: exponentiation declared left-associative
OperatorsAllLeft ==
    [op \in {<<"+">>, <<"-">>, <<"*">>, <<"/">>, <<"^">>, <<"*", "*">>} |->
        CASE op = <<"+">> -> [precedence |-> 1, associativity |-> "left"]
          [] op = <<"-">> -> [precedence |-> 1, associativity |-> "left"]
          [] op = <<"*">> -> [precedence |-> 2, associativity |-> "left"]
          [] op = <<"/">> -> [precedence |-> 2, associativity |-> "left"]
          [] op = <<"^">> -> [precedence |-> 3, associativity |-> "left"]
          [] op = <<"*", "*">> -> [precedence |-> 3, associativity |-> "left"]]

operators ==
    [op \in {<<"+">>, <<"-">>, <<"*">>, <<"/">>, <<"^">>, <<"*", "*">>} |->
        CASE op = <<"+">> -> [precedence |-> 1, associativity |-> "left"]
          [] op = <<"-">> -> [precedence |-> 1, associativity |-> "left"]
          [] op = <<"*">> -> [precedence |-> 2, associativity |-> "left"]
          [] op = <<"/">> -> [precedence |-> 2, associativity |-> "left"]
          [] op = <<"^">> -> [precedence |-> 3, associativity |-> "right"]
          [] op = <<"*", "*">> -> [precedence |-> 3, associativity |-> "right"]]

EvaluatedFunctions ==
    {<<"s","i","n">>, <<"c","o","s">>, <<"t","a","n">>,
     <<"a","s","i","n">>, <<"a","c","o","s">>, <<"a","t","a","n">>,
     <<"s","i","n","h">>, <<"c","o","s","h">>, <<"t","a","n","h">>,
     <<"l","n">>, <<"l","o","g">>, <<"e","x","p">>,
     <<"s","q","r","t">>, <<"a","b","s">>, <<"f","l","o","o","r">>,
     <<"c","e","i","l">>, <<"r","o","u","n","d">>}

functions ==
    EvaluatedFunctions \cup
    {<<"d","e","r","i","v","a","t","i","v","e">>,
     <<"i","n","t","e","g","r","a","l">>, <<"d","i","f","f">>,
     <<"i","n","t">>}

constants ==
    {<<"p","i">>, <<"e">>, <<"p","h","i">>, <<"g","a","m","m","a">>,
     <<"i","n","f">>, <<"n","a","n">>}

(***************************************************************************)
(* MathParser.tokenize and its helpers                                     *)
(***************************************************************************)
\* expression.replace(' ', '')
RECURSIVE StripSpaces(_)
StripSpaces(s) ==
    IF s = <<>> THEN <<>>
    ELSE IF Head(s) = " " THEN StripSpaces(Tail(s))
    ELSE <<Head(s)>> \o StripSpaces(Tail(s))

\* the inner digit loop of the scientific-notation branch
RECURSIVE SkipDigits(_, _)
SkipDigits(s, end) ==
    IF end < Len(s) /\ IsDigit(s[end + 1]) THEN SkipDigits(s, end + 1)
    ELSE end

\* the while loop of _parse_number; positions are 0-based as in the source
RECURSIVE NumberEnd(_, _, _)
NumberEnd(s, end, has_decimal) ==
    IF end >= Len(s) THEN end
    ELSE LET char == s[end + 1] IN
         IF IsDigit(char) THEN NumberEnd(s, end + 1, has_decimal)
         ELSE IF char = "." /\ ~has_decimal THEN NumberEnd(s, end + 1, TRUE)
         ELSE IF Lower(char) = "e" /\ end + 1 < Len(s) THEN
              LET e1 == end + 1
                  e2 == IF e1 < Len(s) /\ s[e1 + 1] \in {"+", "-"}
                        THEN e1 + 1 ELSE e1
              IN SkipDigits(s, e2)
         ELSE end

\* _parse_number: (expression[start:end], end)
ParseNumber(s, start) ==
    LET end == NumberEnd(s, start, FALSE)
    IN <<SubSeq(s, start + 1, end), end>>

\* variant of IdentifierEnd: an identifier is made of letters only
RECURSIVE IdentifierEndLettersOnly(_, _)
IdentifierEndLettersOnly(s, end) ==
    IF end < Len(s) /\ IsAlpha(s[end + 1])
    THEN IdentifierEndLettersOnly(s, end + 1)
    ELSE end

RECURSIVE IdentifierEnd(_, _)
IdentifierEnd(s, end) ==
    IF end < Len(s) /\ (IsAlnum(s[end + 1]) \/ s[end + 1] = "_")
    THEN IdentifierEnd(s, end + 1)
    ELSE end

\* _parse_identifier: (expression[start:end], end)
ParseIdentifier(s, start) ==
    LET end == IdentifierEnd(s, start)
    IN <<SubSeq(s, start + 1, end), end>>

\* variant of TokenizeIter: a character without a branch does not advance the
\* cursor
TokenizeIterNoSkip(s, pos) ==
    LET char == s[pos + 1] IN
    IF IsDigit(char) \/ char = "." THEN
        LET r == ParseNumber(s, pos)
        IN <<(<<Token("NUMBER", r[1], pos)>>), r[2]>>
    ELSE IF IsAlpha(char) THEN
        LET r == ParseIdentifier(s, pos)
            ty == IF r[1] \in functions THEN "FUNCTION"
                  ELSE IF r[1] \in constants THEN "CONSTANT"
                  ELSE "VARIABLE"
        IN <<(<<Token(ty, r[1], pos)>>), r[2]>>
    ELSE IF char \in {"+", "-", "*", "/", "^"} THEN
        IF char = "*" /\ pos + 1 < Len(s) /\ s[pos + 2] = "*"
        THEN <<(<<Token("OPERATOR", <<"*", "*">>, pos)>>), pos + 2>>
        ELSE <<(<<Token("OPERATOR", <<char>>, pos)>>), pos + 1>>
    ELSE IF char = "(" THEN <<(<<Token("LEFT_PAREN", <<char>>, pos)>>), pos + 1>>
    ELSE IF char = ")" THEN <<(<<Token("RIGHT_PAREN", <<char>>, pos)>>), pos + 1>>
    ELSE IF char = "," THEN <<(<<Token("COMMA", <<char>>, pos)>>), pos + 1>>
    ELSE <<(<<>>), pos>>

\* one iteration of the while loop of tokenize at cursor pos:
\* <<tokens appended, new cursor>>
TokenizeIter(s, pos) ==
    LET char == s[pos + 1] IN
    IF IsDigit(char) \/ char = "." THEN
        LET r == ParseNumber(s, pos)
        IN <<(<<Token("NUMBER", r[1], pos)>>), r[2]>>
    ELSE IF IsAlpha(char) THEN
        LET r == ParseIdentifier(s, pos)
            ty == IF r[1] \in functions THEN "FUNCTION"
                  ELSE IF r[1] \in constants THEN "CONSTANT"
                  ELSE "VARIABLE"
        IN <<(<<Token(ty, r[1], pos)>>), r[2]>>
    ELSE IF char \in {"+", "-", "*", "/", "^"} THEN
        IF char = "*" /\ pos + 1 < Len(s) /\ s[pos + 2] = "*"
        THEN <<(<<Token("OPERATOR", <<"*", "*">>, pos)>>), pos + 2>>
        ELSE <<(<<Token("OPERATOR", <<char>>, pos)>>), pos + 1>>
    ELSE IF char = "(" THEN <<(<<Token("LEFT_PAREN", <<char>>, pos)>>), pos + 1>>
    ELSE IF char = ")" THEN <<(<<Token("RIGHT_PAREN", <<char>>, pos)>>), pos + 1>>
    ELSE IF char = "," THEN <<(<<Token("COMMA", <<char>>, pos)>>), pos + 1>>
    ELSE <<(<<>>), pos + 1>>

(***************************************************************************)
(* Error messages: the text of an f-string with its interpolated position  *)
(* or name kept apart                                                      *)
(***************************************************************************)
Err(m, p, n) == [msg |-> m, pos |-> p, name |-> n]

NoError == Err("", -1, <<>>)

(***************************************************************************)
(* MathParser.validate_syntax                                              *)
(***************************************************************************)
\* if paren_count < 0 after a RIGHT_PAREN
ClosingUnmatched(token, pcount) == token.type = "RIGHT_PAREN" /\ pcount < 0

\* variant of ConsecutiveOperators: only a repeated operator is caught
ConsecutiveSameOperator(toks, prev, token) ==
    /\ prev # 0
    /\ toks[prev].type = "OPERATOR"
    /\ token.type = "OPERATOR"
    /\ toks[prev].value = token.value

\* prev_token and prev_token.type == OPERATOR and token.type == OPERATOR
ConsecutiveOperators(toks, prev, token) ==
    prev # 0 /\ toks[prev].type = "OPERATOR" /\ token.type = "OPERATOR"

\* variant of FunctionMisplaced: a function directly after a comma is refused
FunctionMisplacedAfterComma(toks, prev, token) ==
    /\ token.type = "FUNCTION"
    /\ prev # 0
    /\ toks[prev].type \notin {"OPERATOR", "LEFT_PAREN"}

\* token.type == FUNCTION and prev_token and prev_token.type not in [...]
FunctionMisplaced(toks, prev, token) ==
    /\ token.type = "FUNCTION"
    /\ prev # 0
    /\ toks[prev].type \notin {"OPERATOR", "LEFT_PAREN", "COMMA"}

\* variant of FinalChecks: only a negative count is reported, so an unclosed
\* '(' passes
FinalChecksNegativeOnly(toks, paren_count, prev) ==
    IF paren_count < 0 THEN
        [valid |-> FALSE, error |-> Err("Unmatched parentheses", -1, <<>>)]
    ELSE IF prev # 0 /\ toks[prev].type = "OPERATOR" THEN
        [valid |-> FALSE,
         error |-> Err("Expression cannot end with an operator", -1, <<>>)]
    ELSE [valid |-> TRUE, error |-> NoError]

\* variant of FinalChecks: the trailing operator is checked before the balance
FinalChecksSwapped(toks, paren_count, prev) ==
    IF prev # 0 /\ toks[prev].type = "OPERATOR" THEN
        [valid |-> FALSE,
         error |-> Err("Expression cannot end with an operator", -1, <<>>)]
    ELSE IF paren_count # 0 THEN
        [valid |-> FALSE, error |-> Err("Unmatched parentheses", -1, <<>>)]
    ELSE [valid |-> TRUE, error |-> NoError]

\* the two checks after the for loop
FinalChecks(toks, paren_count, prev) ==
    IF paren_count # 0 THEN
        [valid |-> FALSE, error |-> Err("Unmatched parentheses", -1, <<>>)]
    ELSE IF prev # 0 /\ toks[prev].type = "OPERATOR" THEN
        [valid |-> FALSE,
         error |-> Err("Expression cannot end with an operator", -1, <<>>)]
    ELSE [valid |-> TRUE, error |-> NoError]

\* the for loop; i is the 1-based index of the token looked at, prev the
\* index of prev_token (0 for None)
RECURSIVE ValidateLoop(_, _, _, _)
ValidateLoop(toks, i, paren_count, prev) ==
    IF i > Len(toks) \/ toks[i].type = "EOF" THEN FinalChecks(toks, paren_count, prev)
    ELSE
        LET token == toks[i]
            pcount == IF token.type = "LEFT_PAREN" THEN paren_count + 1
                      ELSE IF token.type = "RIGHT_PAREN" THEN paren_count - 1
                      ELSE paren_count
        IN IF ClosingUnmatched(token, pcount) THEN
               [valid |-> FALSE,
                error |-> Err("Unmatched closing parenthesis at position",
                              token.position, <<>>)]
           ELSE IF ConsecutiveOperators(toks, prev, token) THEN
               [valid |-> FALSE,
                error |-> Err("Consecutive operators at position",
                              token.position, <<>>)]
           ELSE IF FunctionMisplaced(toks, prev, token) THEN
               [valid |-> FALSE,
                error |-> Err("Invalid function call at position",
                              token.position, <<>>)]
           ELSE ValidateLoop(toks, i + 1, pcount, i)

validate_syntax(toks) ==
    IF toks = <<>> \/ toks[1].type = "EOF"
    THEN [valid |-> FALSE, error |-> Err("Empty expression", -1, <<>>)]
    ELSE ValidateLoop(toks, 1, 0, 0)

(***************************************************************************)
(* MathParser.parse_to_postfix (Shunting Yard)                             *)
(***************************************************************************)
\* variant of _has_higher_precedence: the precedence comparison is inverted
HasHigherPrecedenceInverted(op1, op2) ==
    IF op1.value \notin DOMAIN operators \/ op2.value \notin DOMAIN operators
    THEN FALSE
    ELSE LET prec1 == operators[op1.value].precedence
             prec2 == operators[op2.value].precedence
             assoc2 == operators[op2.value].associativity
         IN prec1 < prec2 \/ (prec1 = prec2 /\ assoc2 = "left")

\* variant of _has_higher_precedence: equal precedence never pops
HasHigherPrecedenceStrict(op1, op2) ==
    IF op1.value \notin DOMAIN operators \/ op2.value \notin DOMAIN operators
    THEN FALSE
    ELSE LET prec1 == operators[op1.value].precedence
             prec2 == operators[op2.value].precedence
         IN prec1 > prec2

_has_higher_precedence(op1, op2) ==
    IF op1.value \notin DOMAIN operators \/ op2.value \notin DOMAIN operators
    THEN FALSE
    ELSE LET prec1 == operators[op1.value].precedence
             prec2 == operators[op2.value].precedence
             assoc2 == operators[op2.value].associativity
         IN prec1 > prec2 \/ (prec1 = prec2 /\ assoc2 = "left")

Top(st) == st[Len(st)]

Pop(st) == SubSeq(st, 1, Len(st) - 1)

\* variant of DrainToParen: a left parenthesis does not stop the popping
RECURSIVE DrainThroughParen(_, _)
DrainThroughParen(out, st) ==
    IF st # <<>>
    THEN DrainThroughParen(Append(out, Top(st)), Pop(st))
    ELSE [out |-> out, st |-> st]

\* while operator_stack and operator_stack[-1].type != LEFT_PAREN:
\*     output.append(operator_stack.pop())
RECURSIVE DrainToParen(_, _)
DrainToParen(out, st) ==
    IF st # <<>> /\ Top(st).type # "LEFT_PAREN"
    THEN DrainToParen(Append(out, Top(st)), Pop(st))
    ELSE [out |-> out, st |-> st]

\* while operator_stack and top is OPERATOR and _has_higher_precedence(top, token)
RECURSIVE PopHigher(_, _, _)
PopHigher(out, st, token) ==
    IF st # <<>> /\ Top(st).type = "OPERATOR" /\ _has_higher_precedence(Top(st), token)
    THEN PopHigher(Append(out, Top(st)), Pop(st), token)
    ELSE [out |-> out, st |-> st]

\* while operator_stack: output.append(operator_stack.pop())
RECURSIVE DrainAll(_, _)
DrainAll(out, st) ==
    IF st # <<>> THEN DrainAll(Append(out, Top(st)), Pop(st)) ELSE out

\* variant of CloseParen: the left parenthesis is not removed
CloseParenKeepsLeft(out, st) ==
    LET r == DrainToParen(out, st)
        st1 == r.st
    IN IF st1 # <<>> /\ Top(st1).type = "FUNCTION"
       THEN [out |-> Append(r.out, Top(st1)), st |-> Pop(st1)]
       ELSE [out |-> r.out, st |-> st1]

\* the RIGHT_PAREN branch: pop until the left parenthesis, remove it, and
\* move a function on top to the output
CloseParen(out, st) ==
    LET r == DrainToParen(out, st)
        st1 == IF r.st # <<>> THEN Pop(r.st) ELSE r.st
    IN IF st1 # <<>> /\ Top(st1).type = "FUNCTION"
       THEN [out |-> Append(r.out, Top(st1)), st |-> Pop(st1)]
       ELSE [out |-> r.out, st |-> st1]

\* variant of ConvertToken: a comma empties the operator stack
ConvertTokenCommaDrainsAll(out, st, token) ==
    IF token.type \in {"NUMBER", "VARIABLE", "CONSTANT"} THEN
        [out |-> Append(out, token), st |-> st]
    ELSE IF token.type = "FUNCTION" THEN
        [out |-> out, st |-> Append(st, token)]
    ELSE IF token.type = "COMMA" THEN
        [out |-> DrainAll(out, st), st |-> <<>>]
    ELSE IF token.type = "OPERATOR" THEN
        LET r == PopHigher(out, st, token)
        IN [out |-> r.out, st |-> Append(r.st, token)]
    ELSE IF token.type = "LEFT_PAREN" THEN
        [out |-> out, st |-> Append(st, token)]
    ELSE IF token.type = "RIGHT_PAREN" THEN
        CloseParen(out, st)
    ELSE [out |-> out, st |-> st]

\* the body of the for loop of parse_to_postfix for one non-EOF token
ConvertToken(out, st, token) ==
    IF token.type \in {"NUMBER", "VARIABLE", "CONSTANT"} THEN
        [out |-> Append(out, token), st |-> st]
    ELSE IF token.type = "FUNCTION" THEN
        [out |-> out, st |-> Append(st, token)]
    ELSE IF token.type = "COMMA" THEN
        DrainToParen(out, st)
    ELSE IF token.type = "OPERATOR" THEN
        LET r == PopHigher(out, st, token)
        IN [out |-> r.out, st |-> Append(r.st, token)]
    ELSE IF token.type = "LEFT_PAREN" THEN
        [out |-> out, st |-> Append(st, token)]
    ELSE IF token.type = "RIGHT_PAREN" THEN
        CloseParen(out, st)
    ELSE [out |-> out, st |-> st]

\* parse_to_postfix as a function of the token list
RECURSIVE ConvertFrom(_, _, _, _)
ConvertFrom(toks, i, out, st) ==
    IF i > Len(toks) \/ toks[i].type = "EOF" THEN DrainAll(out, st)
    ELSE LET r == ConvertToken(out, st, toks[i])
         IN ConvertFrom(toks, i + 1, r.out, r.st)

parse_to_postfix(toks) == ConvertFrom(toks, 1, <<>>, <<>>)

(***************************************************************************)
(* Numbers.  A double is modelled exactly while it is rational: kind "rat" *)
(* is n/d in lowest terms with d > 0.  Kind "sym" is a finite real whose   *)
(* digits are not tracked (pi, sqrt(2), 2^(1/2)): it keeps the operation   *)
(* that made it and, in n, its sign where the sign is known (0 where it is *)
(* not).  Kind "cplx" is a Python complex, kinds "inf" and "nan" the two   *)
(* non-finite constants.  Where the outcome of an operation would depend   *)
(* on digits the model does not track, the operation reports "unmodelled", *)
(* and ModelExact checks that no run ever gets there.                      *)
(***************************************************************************)
Abs(i) == IF i < 0 THEN -i ELSE i

Sgn(i) == IF i < 0 THEN -1 ELSE IF i > 0 THEN 1 ELSE 0

RECURSIVE Gcd(_, _)
Gcd(a, b) == IF b = 0 THEN a ELSE Gcd(b, a % b)

Val(k, n, d, op, args) == [k |-> k, n |-> n, d |-> d, op |-> op, args |-> args]

Rat(n, d) ==
    LET g == Gcd(Abs(n), Abs(d))
    IN Val("rat", Sgn(d) * (n \div g), Abs(d) \div g, "", <<>>)

Sym(sign, op, args) == Val("sym", sign, 1, op, args)

Cplx(op, args) == Val("cplx", 0, 1, op, args)

NoValue == Val("none", 0, 1, "", <<>>)

IsRat(v) == v.k = "rat"

IsZero(v) == v.k = "rat" /\ v.n = 0

IsOne(v) == v.k = "rat" /\ v.n = 1 /\ v.d = 1

\* the sign of a real value: 1, -1, or 0 (zero for a rat, unknown for a sym)
SignOf(v) == IF v.k = "rat" THEN Sgn(v.n) ELSE v.n

\* outcome of a Python call: a value, or a raised exception
Ret(v) == [ok |-> TRUE, v |-> v, error |-> NoError]

Raise(m, n) == [ok |-> FALSE, v |-> NoValue, error |-> Err(m, -1, n)]

Unmodelled == Raise("unmodelled", <<>>)

(***************************************************************************)
(* float(token.value) for the lexemes _parse_number can produce            *)
(***************************************************************************)
DigitVal(c) ==
    CASE c = "0" -> 0 [] c = "1" -> 1 [] c = "2" -> 2 [] c = "3" -> 3
      [] c = "4" -> 4 [] c = "5" -> 5 [] c = "6" -> 6 [] c = "7" -> 7
      [] c = "8" -> 8 [] c = "9" -> 9

\* value of a digit string, most significant first
RECURSIVE DigitsVal(_)
DigitsVal(s) ==
    IF s = <<>> THEN 0
    ELSE 10 * DigitsVal(SubSeq(s, 1, Len(s) - 1)) + DigitVal(s[Len(s)])

Count(s, set) == Cardinality({i \in 1..Len(s) : s[i] \in set})

\* index of the first exponent marker, 0 if none
ExpMark(s) ==
    LET at == {i \in 1..Len(s) : Lower(s[i]) = "e"}
    IN IF at = {} THEN 0 ELSE CHOOSE i \in at : \A j \in at : i <= j

RECURSIVE Pow10(_)
Pow10(k) == IF k = 0 THEN 1 ELSE 10 * Pow10(k - 1)

RECURSIVE RemoveDot(_)
RemoveDot(s) ==
    IF s = <<>> THEN <<>>
    ELSE IF Head(s) = "." THEN RemoveDot(Tail(s))
    ELSE <<Head(s)>> \o RemoveDot(Tail(s))

\* float(text): a decimal mantissa with at least one digit and at most one
\* '.', then optionally e/E, an optional sign and at least one digit;
\* anything else raises ValueError
ParseFloat(text) ==
    LET m == ExpMark(text)
        mant == IF m = 0 THEN text ELSE SubSeq(text, 1, m - 1)
        ex == IF m = 0 THEN <<>> ELSE SubSeq(text, m + 1, Len(text))
        signed == ex # <<>> /\ ex[1] \in {"+", "-"}
        exdigits == IF signed THEN Tail(ex) ELSE ex
        mantOK == /\ \A i \in 1..Len(mant) : mant[i] \in Digits \cup {"."}
                  /\ Count(mant, {"."}) <= 1
                  /\ Count(mant, Digits) >= 1
        exOK == \/ m = 0
                \/ /\ exdigits # <<>>
                   /\ \A i \in 1..Len(exdigits) : exdigits[i] \in Digits
    IN IF ~(mantOK /\ exOK)
       THEN Raise("could not convert string to float", text)
       ELSE LET dot == CHOOSE i \in 0..Len(mant) :
                          IF Count(mant, {"."}) = 0 THEN i = 0 ELSE i > 0 /\ mant[i] = "."
                fraclen == IF dot = 0 THEN 0 ELSE Len(mant) - dot
                num == DigitsVal(RemoveDot(mant))
                e == IF m = 0 THEN 0 ELSE DigitsVal(exdigits)
                neg == signed /\ ex[1] = "-"
            IN IF neg THEN Ret(Rat(num, Pow10(fraclen) * Pow10(e)))
               ELSE Ret(Rat(num * Pow10(e), Pow10(fraclen)))

(***************************************************************************)
(* MathEvaluator.__init__ : operators, functions and constants as Python   *)
(* applies them to doubles                                                 *)
(***************************************************************************)
\* the name of a function or constant as one string
NameOf(name) ==
    CASE name = <<"p","i">> -> "pi" [] name = <<"e">> -> "e"
      [] name = <<"p","h","i">> -> "phi" [] name = <<"g","a","m","m","a">> -> "gamma"
      [] name = <<"i","n","f">> -> "inf" [] name = <<"n","a","n">> -> "nan"
      [] name = <<"s","i","n">> -> "sin" [] name = <<"c","o","s">> -> "cos"
      [] name = <<"t","a","n">> -> "tan" [] name = <<"a","s","i","n">> -> "asin"
      [] name = <<"a","c","o","s">> -> "acos" [] name = <<"a","t","a","n">> -> "atan"
      [] name = <<"s","i","n","h">> -> "sinh" [] name = <<"c","o","s","h">> -> "cosh"
      [] name = <<"t","a","n","h">> -> "tanh" [] name = <<"l","n">> -> "ln"
      [] name = <<"l","o","g">> -> "log" [] name = <<"e","x","p">> -> "exp"
      [] name = <<"s","q","r","t">> -> "sqrt" [] name = <<"a","b","s">> -> "abs"
      [] name = <<"f","l","o","o","r">> -> "floor" [] name = <<"c","e","i","l">> -> "ceil"
      [] name = <<"r","o","u","n","d">> -> "round"

IrrationalConstants == {"pi", "e", "phi", "gamma"}

RECURSIVE IntPow(_, _)
IntPow(x, e) == IF e = 0 THEN 1 ELSE x * IntPow(x, e - 1)

IsReal(v) == v.k \in {"rat", "sym"}

\* x + y
PyAdd(a, b) ==
    IF IsRat(a) /\ IsRat(b) THEN Ret(Rat(a.n * b.d + b.n * a.d, a.d * b.d))
    ELSE IF ~(a.k \in {"rat", "sym", "cplx"} /\ b.k \in {"rat", "sym", "cplx"}) THEN Unmodelled
    ELSE IF a.k = "cplx" \/ b.k = "cplx" THEN Ret(Cplx("+", <<a, b>>))
    ELSE IF IsZero(a) THEN Ret(b)
    ELSE IF IsZero(b) THEN Ret(a)
    ELSE Ret(Sym(IF SignOf(a) = SignOf(b) THEN SignOf(a) ELSE 0, "+", <<a, b>>))

\* x - y
PySub(a, b) ==
    IF IsRat(a) /\ IsRat(b) THEN Ret(Rat(a.n * b.d - b.n * a.d, a.d * b.d))
    ELSE IF ~(a.k \in {"rat", "sym", "cplx"} /\ b.k \in {"rat", "sym", "cplx"}) THEN Unmodelled
    ELSE IF a.k = "cplx" \/ b.k = "cplx" THEN Ret(Cplx("-", <<a, b>>))
    ELSE IF IsZero(b) THEN Ret(a)
    ELSE IF a = b THEN Ret(Rat(0, 1))
    ELSE IF IsZero(a) THEN Ret(Sym(-SignOf(b), "-", <<a, b>>))
    ELSE Ret(Sym(IF SignOf(a) = -SignOf(b) THEN SignOf(a) ELSE 0, "-", <<a, b>>))

\* x * y
PyMul(a, b) ==
    IF IsRat(a) /\ IsRat(b) THEN Ret(Rat(a.n * b.n, a.d * b.d))
    ELSE IF ~(a.k \in {"rat", "sym", "cplx"} /\ b.k \in {"rat", "sym", "cplx"}) THEN Unmodelled
    ELSE IF a.k = "cplx" \/ b.k = "cplx" THEN Ret(Cplx("*", <<a, b>>))
    ELSE IF IsZero(a) \/ IsZero(b) THEN Ret(Rat(0, 1))
    ELSE IF IsOne(a) THEN Ret(b)
    ELSE IF IsOne(b) THEN Ret(a)
    ELSE Ret(Sym(SignOf(a) * SignOf(b), "*", <<a, b>>))

\* x / y for a divisor that is not zero
Quotient(a, b) ==
    IF IsRat(a) /\ IsRat(b) THEN Ret(Rat(a.n * b.d, a.d * b.n))
    ELSE IF b.k = "sym" /\ SignOf(b) = 0 THEN Unmodelled
    ELSE IF a.k = "cplx" \/ b.k = "cplx" THEN Ret(Cplx("/", <<a, b>>))
    ELSE IF IsZero(a) THEN Ret(Rat(0, 1))
    ELSE IF IsOne(b) THEN Ret(a)
    ELSE IF a = b THEN Ret(Rat(1, 1))
    ELSE Ret(Sym(SignOf(a) * SignOf(b), "/", <<a, b>>))

\* variant of PyDiv: IEEE division, a zero divisor gives a non-finite value
PyDivIEEE(a, b) ==
    IF ~(a.k \in {"rat", "sym", "cplx"} /\ b.k \in {"rat", "sym", "cplx"}) THEN Unmodelled
    ELSE IF IsZero(b) THEN
        Ret(IF IsZero(a) THEN Val("nan", 0, 1, "", <<>>) ELSE Val("inf", SignOf(a), 1, "", <<>>))
    ELSE Quotient(a, b)

\* x / y : a zero divisor raises ZeroDivisionError
PyDiv(a, b) ==
    IF ~(a.k \in {"rat", "sym", "cplx"} /\ b.k \in {"rat", "sym", "cplx"}) THEN Unmodelled
    ELSE IF IsZero(b) THEN
        Raise(IF a.k = "cplx" THEN "complex division by zero"
              ELSE "float division by zero", <<>>)
    ELSE Quotient(a, b)

NegativePower == Raise("0.0 cannot be raised to a negative power", <<>>)

\* x ** y on rationals
RatPow(a, b) ==
    IF b.d = 1 THEN
        IF b.n >= 0 THEN Ret(Rat(IntPow(a.n, b.n), IntPow(a.d, b.n)))
        ELSE IF a.n = 0 THEN NegativePower
        ELSE Ret(Rat(IntPow(a.d, -b.n), IntPow(a.n, -b.n)))
    ELSE IF a.n = 0 THEN (IF b.n > 0 THEN Ret(Rat(0, 1)) ELSE NegativePower)
    ELSE IF IsOne(a) THEN Ret(Rat(1, 1))
    ELSE IF a.n > 0 THEN Ret(Sym(1, "^", <<a, b>>))
    ELSE Ret(Cplx("^", <<a, b>>))

\* x ** y
PyPow(a, b) ==
    IF IsRat(a) /\ IsRat(b) THEN RatPow(a, b)
    ELSE IF ~(a.k \in {"rat", "sym", "cplx"} /\ b.k \in {"rat", "sym", "cplx"}) THEN Unmodelled
    ELSE IF a.k = "cplx" \/ b.k = "cplx" THEN
        IF IsZero(a) THEN Unmodelled ELSE Ret(Cplx("^", <<a, b>>))
    ELSE IF IsZero(b) \/ IsOne(a) THEN Ret(Rat(1, 1))
    ELSE IF IsOne(b) THEN Ret(a)
    ELSE IF IsZero(a) THEN
        (IF SignOf(b) = 1 THEN Ret(Rat(0, 1))
         ELSE IF SignOf(b) = -1 THEN NegativePower ELSE Unmodelled)
    ELSE IF SignOf(a) = 1 THEN Ret(Sym(1, "^", <<a, b>>))
    ELSE IF IsRat(b) /\ b.d = 1 THEN
        Ret(Sym(IF b.n % 2 = 0 THEN 1 ELSE SignOf(a), "^", <<a, b>>))
    ELSE IF SignOf(a) = -1 /\ (IsRat(b) \/ b.op \in IrrationalConstants) THEN Ret(Cplx("^", <<a, b>>))
    ELSE Unmodelled

\* self.operators[token.value](a, b)
ApplyOperator(op, a, b) ==
    CASE op = <<"+">> -> PyAdd(a, b)
      [] op = <<"-">> -> PySub(a, b)
      [] op = <<"*">> -> PyMul(a, b)
      [] op = <<"/">> -> PyDiv(a, b)
      [] op = <<"^">> -> PyPow(a, b)
      [] op = <<"*", "*">> -> PyPow(a, b)

\* variant of EvaluatorOperators: the alias ** is missing from the table
EvaluatorOperatorsNoAlias == {<<"+">>, <<"-">>, <<"*">>, <<"/">>, <<"^">>}

EvaluatorOperators == {<<"+">>, <<"-">>, <<"*">>, <<"/">>, <<"^">>, <<"*", "*">>}

\* self.constants[name]
ConstantValue(name) ==
    IF NameOf(name) \in IrrationalConstants THEN Sym(1, NameOf(name), <<>>)
    ELSE IF NameOf(name) = "inf" THEN Val("inf", 1, 1, "", <<>>)
    ELSE Val("nan", 0, 1, "", <<>>)

EvaluatorConstants ==
    {<<"p","i">>, <<"e">>, <<"p","h","i">>, <<"g","a","m","m","a">>,
     <<"i","n","f">>, <<"n","a","n">>}

DomainError == Raise("math domain error", <<>>)

RealExpected == Raise("must be real number, not complex", <<>>)

\* is the non-negative integer i a perfect square
IsSquare(i) == \E r \in 0..i : r * r = i

Isqrt(i) == CHOOSE r \in 0..i : r * r = i

\* floor of a rational
Floor(v) == v.n \div v.d

\* round(x): to the nearest integer, ties to the even one
RoundHalfEven(v) ==
    LET f == Floor(v)
        twice == 2 * (v.n - f * v.d)
    IN IF twice < v.d THEN f
       ELSE IF twice > v.d THEN f + 1
       ELSE IF f % 2 = 0 THEN f ELSE f + 1

\* variant of InDomain: no argument is refused
InDomainAlways(f, v) == TRUE

\* the arguments for which the math library does not raise "math domain error"
InDomain(f, v) ==
    CASE f = "sqrt" -> v.n >= 0
      [] f \in {"ln", "log"} -> v.n > 0
      [] f \in {"asin", "acos"} -> Abs(v.n) <= v.d
      [] OTHER -> TRUE

\* func(arg) on a rational argument of the function's domain
RatValue(f, v) ==
    CASE f = "sqrt" ->
           IF IsSquare(v.n) /\ IsSquare(v.d) THEN Rat(Isqrt(v.n), Isqrt(v.d))
           ELSE Sym(1, f, <<v>>)
      [] f \in {"ln", "log"} ->
           IF IsOne(v) THEN Rat(0, 1) ELSE Sym(IF v.n > v.d THEN 1 ELSE -1, f, <<v>>)
      [] f = "asin" -> IF v.n = 0 THEN Rat(0, 1) ELSE Sym(Sgn(v.n), f, <<v>>)
      [] f = "acos" -> IF IsOne(v) THEN Rat(0, 1) ELSE Sym(1, f, <<v>>)
      [] f \in {"atan", "sinh", "tanh"} ->
           IF v.n = 0 THEN Rat(0, 1) ELSE Sym(Sgn(v.n), f, <<v>>)
      [] f \in {"sin", "tan"} -> IF v.n = 0 THEN Rat(0, 1) ELSE Sym(0, f, <<v>>)
      [] f = "cos" -> IF v.n = 0 THEN Rat(1, 1) ELSE Sym(0, f, <<v>>)
      [] f \in {"cosh", "exp"} -> IF v.n = 0 THEN Rat(1, 1) ELSE Sym(1, f, <<v>>)
      [] f = "abs" -> Rat(Abs(v.n), v.d)
      [] f = "floor" -> Rat(Floor(v), 1)
      [] f = "ceil" -> Rat(-((-v.n) \div v.d), 1)
      [] f = "round" -> Rat(RoundHalfEven(v), 1)

\* func(arg) on a rational argument
RatFunction(f, v) == IF InDomain(f, v) THEN Ret(RatValue(f, v)) ELSE DomainError

\* func(arg) on a real whose digits are not tracked
SymFunction(f, v) ==
    CASE f = "sqrt" ->
           IF SignOf(v) = 1 THEN Ret(Sym(1, f, <<v>>))
           ELSE IF SignOf(v) = -1 THEN DomainError ELSE Unmodelled
      [] f \in {"ln", "log"} ->
           IF SignOf(v) = 1 THEN Ret(Sym(0, f, <<v>>))
           ELSE IF SignOf(v) = -1 THEN DomainError ELSE Unmodelled
      [] f \in {"asin", "acos", "floor", "ceil", "round"} -> Unmodelled
      [] f \in {"atan", "sinh", "tanh"} -> Ret(Sym(SignOf(v), f, <<v>>))
      [] f \in {"sin", "tan", "cos"} -> Ret(Sym(0, f, <<v>>))
      [] f \in {"cosh", "exp"} -> Ret(Sym(1, f, <<v>>))
      [] f = "abs" -> Ret(Sym(Abs(SignOf(v)), f, <<v>>))

\* self.functions[token.value](arg)
ApplyFunction(name, v) ==
    LET f == NameOf(name) IN
    IF v.k = "rat" THEN RatFunction(f, v)
    ELSE IF v.k = "sym" THEN SymFunction(f, v)
    ELSE IF v.k = "cplx" THEN
        (IF f = "abs" THEN Ret(Sym(0, f, <<v>>)) ELSE RealExpected)
    ELSE Unmodelled

(***************************************************************************)
(* MathEvaluator.evaluate_postfix                                          *)
(***************************************************************************)
\* the outcome of one iteration: the stack afterwards and, if the iteration
\* raised, the exception (the stack then is as the raise left it)
Step(st) == [ok |-> TRUE, stack |-> st, error |-> NoError]

Raised(st, err) == [ok |-> FALSE, stack |-> st, error |-> err]

\* variant of EvalOperator: the operands are taken in the order they are
\* popped, so the operator is applied as right OP left
EvalOperatorSwapped(st, token) ==
    IF Len(st) < 2 THEN
        Raised(st, Err("Insufficient operands for operator", -1, token.value))
    ELSE LET a == st[Len(st)]
             b == st[Len(st) - 1]
             rest == SubSeq(st, 1, Len(st) - 2)
         IN IF token.value \in EvaluatorOperators THEN
                LET r == ApplyOperator(token.value, a, b)
                IN IF r.ok THEN Step(Append(rest, r.v)) ELSE Raised(rest, r.error)
            ELSE Raised(rest, Err("Unknown operator", -1, token.value))

\* the OPERATOR branch
EvalOperator(st, token) ==
    IF Len(st) < 2 THEN
        Raised(st, Err("Insufficient operands for operator", -1, token.value))
    ELSE LET b == st[Len(st)]
             a == st[Len(st) - 1]
             rest == SubSeq(st, 1, Len(st) - 2)
         IN IF token.value \in EvaluatorOperators THEN
                LET r == ApplyOperator(token.value, a, b)
                IN IF r.ok THEN Step(Append(rest, r.v)) ELSE Raised(rest, r.error)
            ELSE Raised(rest, Err("Unknown operator", -1, token.value))

\* variant of EvalFunction: the len(stack) < 1 check is missing and a function
\* met on an empty stack is passed over
EvalFunctionUnchecked(st, token) ==
    IF token.value \in EvaluatedFunctions THEN
        IF Len(st) < 1 THEN Step(st)
        ELSE LET r == ApplyFunction(token.value, Top(st))
             IN IF r.ok THEN Step(Append(Pop(st), r.v)) ELSE Raised(Pop(st), r.error)
    ELSE Raised(st, Err("Unknown function", -1, token.value))

\* variant of EvalFunction: the function takes every stacked value as its
\* arguments and keeps the result of the last one
EvalFunctionDropsArguments(st, token) ==
    IF token.value \in EvaluatedFunctions THEN
        IF Len(st) < 1 THEN
            Raised(st, Err("Insufficient arguments for function", -1, token.value))
        ELSE LET r == ApplyFunction(token.value, Top(st))
             IN IF r.ok THEN Step(<<r.v>>) ELSE Raised(Pop(st), r.error)
    ELSE Raised(st, Err("Unknown function", -1, token.value))

\* variant of EvalFunction: a function the evaluator has no definition for is
\* passed over and its argument stays as the value
EvalFunctionPassThrough(st, token) ==
    IF token.value \in EvaluatedFunctions THEN
        IF Len(st) < 1 THEN
            Raised(st, Err("Insufficient arguments for function", -1, token.value))
        ELSE LET r == ApplyFunction(token.value, Top(st))
             IN IF r.ok THEN Step(Append(Pop(st), r.v)) ELSE Raised(Pop(st), r.error)
    ELSE Step(st)

\* the FUNCTION branch
EvalFunction(st, token) ==
    IF token.value \in EvaluatedFunctions THEN
        IF Len(st) < 1 THEN
            Raised(st, Err("Insufficient arguments for function", -1, token.value))
        ELSE LET r == ApplyFunction(token.value, Top(st))
             IN IF r.ok THEN Step(Append(Pop(st), r.v)) ELSE Raised(Pop(st), r.error)
    ELSE Raised(st, Err("Unknown function", -1, token.value))

\* variant of EvalToken: a variable without a value counts as zero
EvalTokenDefaultsToZero(st, token, vars_) ==
    IF token.type = "NUMBER" THEN
        LET r == ParseFloat(token.value)
        IN IF r.ok THEN Step(Append(st, r.v)) ELSE Raised(st, r.error)
    ELSE IF token.type = "VARIABLE" THEN
        IF token.value \in DOMAIN vars_
        THEN Step(Append(st, vars_[token.value]))
        ELSE Step(Append(st, Rat(0, 1)))
    ELSE IF token.type = "CONSTANT" THEN
        IF token.value \in EvaluatorConstants
        THEN Step(Append(st, ConstantValue(token.value)))
        ELSE Raised(st, Err("Unknown constant", -1, token.value))
    ELSE IF token.type = "OPERATOR" THEN EvalOperator(st, token)
    ELSE IF token.type = "FUNCTION" THEN EvalFunction(st, token)
    ELSE Step(st)

\* the body of the for loop for one postfix token
EvalToken(st, token, vars_) ==
    IF token.type = "NUMBER" THEN
        LET r == ParseFloat(token.value)
        IN IF r.ok THEN Step(Append(st, r.v)) ELSE Raised(st, r.error)
    ELSE IF token.type = "VARIABLE" THEN
        IF token.value \in DOMAIN vars_
        THEN Step(Append(st, vars_[token.value]))
        ELSE Raised(st, Err("Undefined variable", -1, token.value))
    ELSE IF token.type = "CONSTANT" THEN
        IF token.value \in EvaluatorConstants
        THEN Step(Append(st, ConstantValue(token.value)))
        ELSE Raised(st, Err("Unknown constant", -1, token.value))
    ELSE IF token.type = "OPERATOR" THEN EvalOperator(st, token)
    ELSE IF token.type = "FUNCTION" THEN EvalFunction(st, token)
    ELSE Step(st)

IncorrectValues ==
    Err("Invalid expression: incorrect number of values remaining", -1, <<>>)

\* the result dictionaries of evaluate_expression
Success(v, e) == [success |-> TRUE, result |-> v, error |-> NoError, expression |-> e]

\* variant of Failure: the failure dictionary lacks the expression text
FailureWithoutExpression(err, e) ==
    [success |-> FALSE, result |-> NoValue, error |-> err, expression |-> <<>>]

Failure(err, e) == [success |-> FALSE, result |-> NoValue, error |-> err, expression |-> e]

NoResult == [success |-> FALSE, result |-> NoValue, error |-> NoError, expression |-> <<>>]

\* a caller's variables argument: None, or a dictionary
Binding(g, m) == [given |-> g, map |-> m]

\* if variables is None: variables = {}
BindingMap(b) == IF b.given THEN b.map ELSE [n \in {} |-> NoValue]

(***************************************************************************)
(* Inputs: expressions built from lexeme chunks, and a few fixed shapes    *)
(***************************************************************************)
MaxChunks == 3

Chunks ==
    {<<"2">>, <<"0">>, <<"x">>, <<"p", "i">>, <<"+">>, <<"/">>, <<"^">>, <<"(">>, <<")">>, <<",">>, <<"s", "q", "r", "t">>, <<"d", "i", "f", "f">>, <<".">>}

RECURSIVE ChunkSeqs(_)
ChunkSeqs(k) ==
    IF k = 0 THEN {<<>>}
    ELSE LET shorter == ChunkSeqs(k - 1)
         IN shorter \cup {p[1] \o p[2] : p \in shorter \X Chunks}

Operand12 == {<<"2">>, <<"3">>, <<"x">>}

Operand3 == {<<"2">>, <<"x">>}

OperatorLexemes == {<<"+">>, <<"-">>, <<"*">>, <<"/">>, <<"^">>, <<"*", "*">>}

\* a OP1 b OP2 c
Infix3 ==
    {q[1] \o q[2] \o q[3] \o q[4] \o q[5] :
        q \in Operand12 \X OperatorLexemes \X Operand12 \X OperatorLexemes \X Operand3}

CallNames == {<<"s", "q", "r", "t">>, <<"l", "n">>, <<"l", "o", "g">>, <<"a", "s", "i", "n">>, <<"a", "c", "o", "s">>, <<"a", "b", "s">>}

CallOperands == {<<"0">>, <<"2">>, <<"x">>}

CallOperators == {<<"-">>, <<"/">>}

\* f(a), f(a op b), f(a,b) and f(a op b,2)
Calls ==
    {q[1] \o <<"(">> \o q[2] \o <<")">> : q \in CallNames \X CallOperands}
    \cup {q[1] \o <<"(">> \o q[2] \o q[3] \o q[4] \o <<")">> :
             q \in CallNames \X CallOperands \X CallOperators \X CallOperands}
    \cup {q[1] \o <<"(">> \o q[2] \o <<",">> \o q[3] \o <<")">> :
             q \in CallNames \X CallOperands \X CallOperands}
    \cup {q[1] \o <<"(">> \o q[2] \o q[3] \o q[4] \o <<",", "2", ")">> :
             q \in CallNames \X CallOperands \X CallOperators \X CallOperands}

Mantissas == {<<"2">>, <<"2", ".">>, <<".", "2">>, <<".">>}

ExponentParts == {<<>>, <<"e">>, <<"e", "+">>, <<"e", "2">>, <<"e", "+", "2">>, <<"e", "-", "2">>, <<"E", "2">>}

NumberTails == {<<>>, <<"x">>, <<"+", "2">>}

\* number lexemes, well formed and not, alone and followed by something
Numbers ==
    {q[1] \o q[2] \o q[3] : q \in Mantissas \X ExponentParts \X NumberTails}

Scenarios ==
    {<<"2", " ", "+", " ", "3", " ", "*", " ", "4">>,
     <<"2", " ", "+", " ", "+", " ", "3">>,
     <<"2", " ", "+", " ", "-", " ", "3">>,
     <<"s", "q", "r", "t", "(", "-", "1", ")">>,
     <<"2", "^", "3", "^", "2">>,
     <<"s", "i", "n", "x">>,
     <<"p", "i", "x">>,
     <<"e", "2">>,
     <<"d", "i", "f", "f", "(", "x", ")">>,
     <<"i", "n", "t", "(", "2", ")">>,
     <<"d", "e", "r", "i", "v", "a", "t", "i", "v", "e", "(", "2", "+", "x", ")">>,
     <<"2", "+", "i", "n", "t", "e", "g", "r", "a", "l", "(", "x", ")">>,
     <<"x", "+", "d", "i", "f", "f", "(", "2", ")">>,
     <<"5", "-", "3">>,
     <<"2", "^", "3">>,
     <<"8", "-", "3", "-", "2">>,
     <<"8", "/", "4", "*", "2">>,
     <<"x", "^", "2", " ", "+", " ", "3", "*", "x", " ", "+", " ", "1">>,
     <<"s", "i", "n", "(", "p", "i", "/", "2", ")", " ", "+", " ", "c", "o", "s", "(", "0", ")">>}

Blanks == {<<" ">>, <<"\t">>, <<"\n">>}

\* what may stand before a lexeme: nothing, white space, or a character the
\* tokenizer has no branch for
Gaps == {<<>>} \cup Blanks \cup {<<"@">>, <<"_">>}

Pieces == {<<"2">>, <<"x">>, <<"+">>, <<"*">>, <<"(">>, <<")">>, <<"s", "i", "n">>}

\* two lexemes, each after a gap
Spaced ==
    {q[1] \o q[2] \o q[3] \o q[4] : q \in Gaps \X Pieces \X Gaps \X Pieces}

Inputs ==
    ChunkSeqs(MaxChunks) \cup Infix3 \cup Calls \cup Numbers \cup Scenarios
        \cup Spaced

XName == <<"x">>

Bindings ==
    {Binding(FALSE, [n \in {} |-> NoValue]),
     Binding(TRUE, [n \in {XName} |-> Rat(-1, 1)])}

(***************************************************************************)
(* The pipeline as functions, as parse_expression and evaluate_expression  *)
(* chain them                                                              *)
(***************************************************************************)
RECURSIVE TokenizeFrom(_, _, _)
TokenizeFrom(s, pos, toks) ==
    IF pos < Len(s)
    THEN LET r == TokenizeIter(s, pos) IN TokenizeFrom(s, r[2], toks \o r[1])
    ELSE Append(toks, Token("EOF", <<>>, pos))

tokenize(e) == TokenizeFrom(StripSpaces(e), 0, <<>>)

RECURSIVE EvalFrom(_, _, _, _)
EvalFrom(pf, i, st, vars_) ==
    IF i > Len(pf) THEN
        IF Len(st) # 1 THEN [ok |-> FALSE, v |-> NoValue, error |-> IncorrectValues]
        ELSE [ok |-> TRUE, v |-> st[1], error |-> NoError]
    ELSE LET r == EvalToken(st, pf[i], vars_)
         IN IF r.ok THEN EvalFrom(pf, i + 1, r.stack, vars_)
            ELSE [ok |-> FALSE, v |-> NoValue, error |-> r.error]

evaluate_postfix(pf, b) == EvalFrom(pf, 1, <<>>, BindingMap(b))

evaluate_expression(e, b) ==
    LET toks == tokenize(e)
        chk == validate_syntax(toks)
    IN IF ~chk.valid THEN Failure(chk.error, e)
       ELSE LET r == evaluate_postfix(parse_to_postfix(toks), b)
            IN IF r.ok THEN Success(r.v, e) ELSE Failure(r.error, e)

(***************************************************************************)
(* One call of evaluate_expression(expression, variables), step by step    *)
(***************************************************************************)
Init ==
    /\ expression \in Inputs
    /\ variables \in Bindings
    /\ pc = "start"
    /\ expr = <<>>
    /\ position = 0
    /\ tokens = <<>>
    /\ output = <<>>
    /\ operator_stack = <<>>
    /\ tidx = 1
    /\ postfix = <<>>
    /\ stack = <<>>
    /\ eidx = 1
    /\ result = NoResult
    /\ calls = <<>>
    /\ history = <<>>

\* evaluate_expression -> parse_expression -> tokenize: strip the spaces
Begin ==
    /\ pc = "start"
    /\ expr' = StripSpaces(expression)
    /\ position' = 0
    /\ tokens' = <<>>
    /\ calls' = Append(calls, "tokenize")
    /\ pc' = "tokenize"
    /\ UNCHANGED <<history, expression, variables, output, operator_stack, tidx,
                   postfix, stack, eidx, result>>

\* one iteration of the while loop of tokenize
TokenizeStep ==
    /\ pc = "tokenize"
    /\ position < Len(expr)
    /\ LET r == TokenizeIter(expr, position)
       IN /\ tokens' = tokens \o r[1]
          /\ position' = r[2]
    /\ UNCHANGED <<history, expression, variables, pc, expr, output, operator_stack,
                   tidx, postfix, stack, eidx, result, calls>>

\* the loop of tokenize ends: the EOF token
TokenizeEnd ==
    /\ pc = "tokenize"
    /\ position >= Len(expr)
    /\ tokens' = Append(tokens, Token("EOF", <<>>, position))
    /\ pc' = "validate"
    /\ UNCHANGED <<history, expression, variables, expr, position, output,
                   operator_stack, tidx, postfix, stack, eidx, result, calls>>

\* parse_expression: validate_syntax, then either the failure that
\* evaluate_expression returns or the call of parse_to_postfix
Validate ==
    /\ pc = "validate"
    /\ LET chk == validate_syntax(tokens)
       IN IF chk.valid
          THEN /\ pc' = "convert"
               /\ calls' = calls \o <<"validate_syntax", "parse_to_postfix">>
               /\ result' = result
          ELSE /\ pc' = "done"
               /\ calls' = Append(calls, "validate_syntax")
               /\ result' = Failure(chk.error, expression)
    /\ tidx' = 1
    /\ output' = <<>>
    /\ operator_stack' = <<>>
    /\ UNCHANGED <<history, expression, variables, expr, position, tokens, postfix,
                   stack, eidx>>

\* variant of ConvertStep: the loop takes each token off the front of the list
\* it was given instead of reading it in place
ConvertStepConsumesTokens ==
    /\ pc = "convert"
    /\ tokens # <<>>
    /\ Head(tokens).type # "EOF"
    /\ LET r == ConvertToken(output, operator_stack, Head(tokens))
       IN /\ output' = r.out
          /\ operator_stack' = r.st
    /\ tokens' = Tail(tokens)
    /\ UNCHANGED <<history, expression, variables, pc, expr, position, tidx, postfix,
                   stack, eidx, result, calls>>

\* one iteration of the for loop of parse_to_postfix
ConvertStep ==
    /\ pc = "convert"
    /\ tidx <= Len(tokens)
    /\ tokens[tidx].type # "EOF"
    /\ LET r == ConvertToken(output, operator_stack, tokens[tidx])
       IN /\ output' = r.out
          /\ operator_stack' = r.st
    /\ tidx' = tidx + 1
    /\ UNCHANGED <<history, expression, variables, pc, expr, position, tokens, postfix,
                   stack, eidx, result, calls>>

\* variant of ConvertEnd: the evaluator's stack is kept from one call to the
\* next instead of being created anew
ConvertEndKeepsStack ==
    /\ pc = "convert"
    /\ tidx > Len(tokens) \/ tokens[tidx].type = "EOF"
    /\ output' = DrainAll(output, operator_stack)
    /\ operator_stack' = <<>>
    /\ postfix' = DrainAll(output, operator_stack)
    /\ stack' = stack
    /\ eidx' = 1
    /\ calls' = Append(calls, "evaluate_postfix")
    /\ pc' = "evaluate"
    /\ UNCHANGED <<history, expression, variables, expr, position, tokens, tidx, result>>

\* the for loop ends: pop the remaining operators, return the postfix, and
\* evaluate_expression calls evaluate_postfix
ConvertEnd ==
    /\ pc = "convert"
    /\ tidx > Len(tokens) \/ tokens[tidx].type = "EOF"
    /\ output' = DrainAll(output, operator_stack)
    /\ operator_stack' = <<>>
    /\ postfix' = DrainAll(output, operator_stack)
    /\ stack' = <<>>
    /\ eidx' = 1
    /\ calls' = Append(calls, "evaluate_postfix")
    /\ pc' = "evaluate"
    /\ UNCHANGED <<history, expression, variables, expr, position, tokens, tidx, result>>

\* one iteration of the for loop of evaluate_postfix; an exception ends the
\* call in the except clause of evaluate_expression
EvalStep ==
    /\ pc = "evaluate"
    /\ eidx <= Len(postfix)
    /\ LET r == EvalToken(stack, postfix[eidx], BindingMap(variables))
       IN /\ stack' = r.stack
          /\ IF r.ok
             THEN /\ eidx' = eidx + 1
                  /\ UNCHANGED <<pc, result>>
             ELSE /\ pc' = "done"
                  /\ result' = Failure(r.error, expression)
                  /\ eidx' = eidx
    /\ UNCHANGED <<history, expression, variables, expr, position, tokens, output,
                   operator_stack, tidx, postfix, calls>>

\* the for loop ends: exactly one value must remain
EvalEnd ==
    /\ pc = "evaluate"
    /\ eidx > Len(postfix)
    /\ result' = IF Len(stack) # 1 THEN Failure(IncorrectValues, expression)
                 ELSE Success(stack[1], expression)
    /\ pc' = "done"
    /\ UNCHANGED <<history, expression, variables, expr, position, tokens, output,
                   operator_stack, tidx, postfix, stack, eidx, calls>>

Next ==
    \/ Begin
    \/ TokenizeStep
    \/ TokenizeEnd
    \/ Validate
    \/ ConvertStep
    \/ ConvertEnd
    \/ EvalStep
    \/ EvalEnd

Spec == Init /\ [][Next]_vars

(***************************************************************************)
(* A session: the same evaluator called again and again, as the loop over  *)
(* test_cases at the end of evaluator.py does.  What a call leaves in its  *)
(* locals stays where it is; each stage creates its own lists anew.        *)
(***************************************************************************)
MaxCalls == 2

SessionInputs ==
    {<<"2", "+", "x">>, <<"x", "/", "0">>, <<"s", "q", "r", "t", "(", "x", ")">>,
     <<"(", "2">>, <<"2", "\t", "2">>, <<"p", "i">>}

\* success flag, value and error of a result, without the expression text
Outcome(r) == <<r.success, r.result, r.error>>

\* evaluate_expression has returned and the caller calls it again
Return ==
    /\ pc = "done"
    /\ Len(history) < MaxCalls
    /\ history' = Append(history, [expression |-> expression,
                                   variables |-> variables,
                                   outcome |-> Outcome(result)])
    /\ expression' \in SessionInputs
    /\ variables' \in Bindings
    /\ calls' = <<>>
    /\ pc' = "start"
    /\ UNCHANGED <<expr, position, tokens, output, operator_stack, tidx,
                   postfix, stack, eidx, result>>

SessionInit ==
    /\ Init
    /\ expression \in SessionInputs

SessionNext ==
    \/ Next
    \/ Return

SessionSpec == SessionInit /\ [][SessionNext]_vars

(***************************************************************************)
(* utils.py  CalculatorUtils: clean_expression and validate_expression.    *)
(* A character outside ASCII is the one-element string naming its code     *)
(* point: U+00D7 multiplication sign, U+00F7 division sign, U+00B2 and     *)
(* U+00B3 superscript two and three, U+221A square root, U+03C0 pi,        *)
(* U+221E infinity, U+222B integral.                                       *)
(***************************************************************************)
\* the characters the regular expression class \s matches
WhiteSpace == {" ", "\t", "\n"}

RECURSIVE LStrip(_)
LStrip(s) == IF s # <<>> /\ Head(s) \in WhiteSpace THEN LStrip(Tail(s)) ELSE s

RECURSIVE RStrip(_)
RStrip(s) ==
    IF s # <<>> /\ s[Len(s)] \in WhiteSpace THEN RStrip(SubSeq(s, 1, Len(s) - 1))
    ELSE s

\* str.strip()
Strip(s) == RStrip(LStrip(s))

\* re.sub(r'\s+', ' ', s)
RECURSIVE CollapseWhiteSpace(_)
CollapseWhiteSpace(s) ==
    IF s = <<>> THEN <<>>
    ELSE IF Head(s) \in WhiteSpace THEN <<" ">> \o CollapseWhiteSpace(LStrip(Tail(s)))
    ELSE <<Head(s)>> \o CollapseWhiteSpace(Tail(s))

\* s.replace(old, new) for a one-character old
RECURSIVE Replace(_, _, _)
Replace(s, old, new) ==
    IF s = <<>> THEN <<>>
    ELSE IF Head(s) = old THEN new \o Replace(Tail(s), old, new)
    ELSE <<Head(s)>> \o Replace(Tail(s), old, new)

\* the dictionary replacements, in its order
SymbolReplacements ==
    <<[old |-> "U+00D7", new |-> <<"*">>],
      [old |-> "U+00F7", new |-> <<"/">>],
      [old |-> "U+00B2", new |-> <<"^", "2">>],
      [old |-> "U+00B3", new |-> <<"^", "3">>],
      [old |-> "U+221A", new |-> <<"s", "q", "r", "t">>],
      [old |-> "U+03C0", new |-> <<"p", "i">>],
      [old |-> "U+221E", new |-> <<"i", "n", "f">>]>>

\* for old, new in replacements.items(): expression = expression.replace(old, new)
RECURSIVE ReplaceSymbols(_, _)
ReplaceSymbols(s, i) ==
    IF i > Len(SymbolReplacements) THEN s
    ELSE ReplaceSymbols(Replace(s, SymbolReplacements[i].old, SymbolReplacements[i].new),
                        i + 1)

\* the class [a-zA-Z]
AsciiLetters == Letters

\* re.sub of a pattern of two one-character classes, putting '*' between the
\* two characters of every match; matches are found from the left and do not
\* overlap
RECURSIVE InsertStar(_, _, _)
InsertStar(s, first, second) ==
    IF Len(s) < 2 THEN s
    ELSE IF s[1] \in first /\ s[2] \in second
         THEN <<s[1], "*", s[2]>> \o InsertStar(SubSeq(s, 3, Len(s)), first, second)
    ELSE <<s[1]>> \o InsertStar(Tail(s), first, second)

clean_expression(e) ==
    LET spaced == CollapseWhiteSpace(Strip(e))
        replaced == ReplaceSymbols(spaced, 1)
        s1 == InsertStar(replaced, Digits, AsciiLetters)
        s2 == InsertStar(s1, Digits, {"("})
        s3 == InsertStar(s2, {")"}, AsciiLetters)
    IN InsertStar(s3, {")"}, Digits)

\* _check_balanced_parentheses
RECURSIVE CheckBalanced(_, _)
CheckBalanced(s, count) ==
    IF s = <<>> THEN count = 0
    ELSE IF Head(s) = "(" THEN CheckBalanced(Tail(s), count + 1)
    ELSE IF Head(s) = ")" THEN (IF count - 1 < 0 THEN FALSE
                                ELSE CheckBalanced(Tail(s), count - 1))
    ELSE CheckBalanced(Tail(s), count)

_check_balanced_parentheses(e) == CheckBalanced(e, 0)

\* the class [a-zA-Z0-9+\-*/^().\s U+222B U+03C0 e]
ValidChars ==
    AsciiLetters \cup Digits \cup {"+", "-", "*", "/", "^", "(", ")", "."}
        \cup WhiteSpace \cup {"U+222B", "U+03C0"}

\* the class [+\-*/^]
OperatorChars == {"+", "-", "*", "/", "^"}

\* re.search(r'[+\-*/^]{2,}', e)
HasOperatorRun(e) ==
    \E i \in 1..(Len(e) - 1) : e[i] \in OperatorChars /\ e[i + 1] \in OperatorChars

\* the pair (is_valid, error_message); the invalid characters are kept as a set
Verdict(ok, m, chars) == [valid |-> ok, msg |-> m, chars |-> chars]

validate_expression(e) ==
    IF e = <<>> THEN Verdict(FALSE, "Empty expression", {})
    ELSE IF ~_check_balanced_parentheses(e) THEN
        Verdict(FALSE, "Unbalanced parentheses", {})
    ELSE IF \E i \in 1..Len(e) : e[i] \notin ValidChars THEN
        Verdict(FALSE, "Invalid characters", {e[i] : i \in {j \in 1..Len(e) : e[j] \notin ValidChars}})
    ELSE IF HasOperatorRun(e) THEN
        Verdict(FALSE, "Consecutive operators not allowed", {})
    ELSE Verdict(TRUE, "", {})

(***************************************************************************)
(* eval(expression, safe_dict) for the part of Python's expression         *)
(* language the calculator's texts reach: integer literals, names, the     *)
(* empty tuple, parentheses, calls with at most one argument, unary + and  *)
(* -, and the binary operators + - * / ** @.  A text outside that part is  *)
(* reported "unmodelled", and UtilsExact checks that no run gets there.    *)
(***************************************************************************)
PyTok(t, v) == [t |-> t, v |-> v]

Lexed(st, toks) == [st |-> st, toks |-> toks]

\* the letters that may continue a number literal or start a keyword right
\* after one
LettersAfterNumber == {"a", "b", "e", "E", "f", "i", "j", "l", "n", "o", "r", "u"}

PyKeywords ==
    {<<"a","n","d">>, <<"a","s">>, <<"d","e","f">>, <<"d","e","l">>, <<"f","o","r">>,
     <<"i","f">>, <<"i","n">>, <<"i","s">>, <<"n","o","t">>, <<"o","r">>,
     <<"t","r","y">>, <<"e","l","s","e">>, <<"e","l","i","f">>, <<"f","r","o","m">>,
     <<"p","a","s","s">>, <<"w","i","t","h">>, <<"l","a","m","b","d","a">>}

\* the tokenizer of the Python compiler, from the 1-based index i
RECURSIVE PyLexFrom(_, _, _)
PyLexFrom(s, i, toks) ==
    IF i > Len(s) THEN Lexed("ok", toks)
    ELSE LET c == s[i] IN
    IF c \in {" ", "\t"} THEN PyLexFrom(s, i + 1, toks)
    ELSE IF IsDigit(c) THEN
        LET end == SkipDigits(s, i)
            text == SubSeq(s, i, end)
        IN IF (c = "0" /\ end > i) THEN Lexed("unmodelled", toks)
           ELSE IF end < Len(s) /\ s[end + 1] \in {".", "_"} \cup LettersAfterNumber
                THEN Lexed("unmodelled", toks)
           ELSE IF end < Len(s) /\ IsAlpha(s[end + 1]) THEN Lexed("syntax", toks)
           ELSE PyLexFrom(s, end + 1, Append(toks, PyTok("num", text)))
    ELSE IF IsAlpha(c) \/ c = "_" THEN
        LET end == IdentifierEnd(s, i)
            text == SubSeq(s, i, end)
        IN IF text \in PyKeywords THEN Lexed("unmodelled", toks)
           ELSE PyLexFrom(s, end + 1, Append(toks, PyTok("name", text)))
    ELSE IF c = "*" THEN
        IF i < Len(s) /\ s[i + 1] = "*"
        THEN PyLexFrom(s, i + 2, Append(toks, PyTok("op", <<"*", "*">>)))
        ELSE PyLexFrom(s, i + 1, Append(toks, PyTok("op", <<"*">>)))
    ELSE IF c = "/" THEN
        IF i < Len(s) /\ s[i + 1] = "/" THEN Lexed("unmodelled", toks)
        ELSE PyLexFrom(s, i + 1, Append(toks, PyTok("op", <<"/">>)))
    ELSE IF c \in {"+", "-", "@", "(", ")"} THEN
        PyLexFrom(s, i + 1, Append(toks, PyTok("op", <<c>>)))
    ELSE Lexed("unmodelled", toks)

PyLex(s) == PyLexFrom(s, 1, <<>>)

\* syntax tree nodes
Node(kind, text, kids) == [kind |-> kind, text |-> text, kids |-> kids]

Parsed(node, next) == [ok |-> TRUE, node |-> node, next |-> next]

SyntaxError == [ok |-> FALSE, node |-> Node("none", <<>>, <<>>), next |-> 0]

IsOp(toks, i, ops) == i <= Len(toks) /\ toks[i].t = "op" /\ toks[i].v \in ops

NoNode == Node("none", <<>>, <<>>)

\* the grammar of expressions, one rule per branch; left is the operand or
\* callee already parsed, for the rules that continue one
\*   expr:     term (('+' | '-') term)*
\*   term:     factor (('*' | '/' | '@') factor)*
\*   factor:   ('+' | '-') factor | power
\*   power:    atom trailers ['**' factor]
\*   trailers: ( '(' [expr] ')' )*
\*   atom:     NUMBER | NAME | '(' ')' | '(' expr ')'
RECURSIVE PyRule(_, _, _, _)
PyRule(rule, toks, i, left) ==
    IF rule = "expr" THEN
        LET t == PyRule("term", toks, i, NoNode)
        IN IF t.ok THEN PyRule("expr_rest", toks, t.next, t.node) ELSE SyntaxError
    ELSE IF rule = "expr_rest" THEN
        IF IsOp(toks, i, {<<"+">>, <<"-">>}) THEN
            LET t == PyRule("term", toks, i + 1, NoNode)
            IN IF t.ok
               THEN PyRule("expr_rest", toks, t.next,
                           Node("binary", toks[i].v, <<left, t.node>>))
               ELSE SyntaxError
        ELSE Parsed(left, i)
    ELSE IF rule = "term" THEN
        LET f == PyRule("factor", toks, i, NoNode)
        IN IF f.ok THEN PyRule("term_rest", toks, f.next, f.node) ELSE SyntaxError
    ELSE IF rule = "term_rest" THEN
        IF IsOp(toks, i, {<<"*">>, <<"/">>, <<"@">>}) THEN
            LET f == PyRule("factor", toks, i + 1, NoNode)
            IN IF f.ok
               THEN PyRule("term_rest", toks, f.next,
                           Node("binary", toks[i].v, <<left, f.node>>))
               ELSE SyntaxError
        ELSE Parsed(left, i)
    ELSE IF rule = "factor" THEN
        IF IsOp(toks, i, {<<"+">>, <<"-">>}) THEN
            LET f == PyRule("factor", toks, i + 1, NoNode)
            IN IF f.ok THEN Parsed(Node("unary", toks[i].v, <<f.node>>), f.next)
               ELSE SyntaxError
        ELSE PyRule("power", toks, i, NoNode)
    ELSE IF rule = "power" THEN
        LET a == PyRule("atom", toks, i, NoNode) IN
        IF ~a.ok THEN SyntaxError
        ELSE LET q == PyRule("trailers", toks, a.next, a.node) IN
             IF ~q.ok THEN SyntaxError
             ELSE IF IsOp(toks, q.next, {<<"*", "*">>}) THEN
                 LET f == PyRule("factor", toks, q.next + 1, NoNode)
                 IN IF f.ok
                    THEN Parsed(Node("binary", <<"*", "*">>, <<q.node, f.node>>), f.next)
                    ELSE SyntaxError
             ELSE q
    ELSE IF rule = "trailers" THEN
        IF ~IsOp(toks, i, {<<"(">>}) THEN Parsed(left, i)
        ELSE IF IsOp(toks, i + 1, {<<")">>}) THEN
            PyRule("trailers", toks, i + 2, Node("call", <<>>, <<left>>))
        ELSE LET r == PyRule("expr", toks, i + 1, NoNode)
             IN IF r.ok /\ IsOp(toks, r.next, {<<")">>})
                THEN PyRule("trailers", toks, r.next + 1,
                            Node("call", <<>>, <<left, r.node>>))
                ELSE SyntaxError
    ELSE \* atom
        IF i > Len(toks) THEN SyntaxError
        ELSE IF toks[i].t = "num" THEN Parsed(Node("num", toks[i].v, <<>>), i + 1)
        ELSE IF toks[i].t = "name" THEN Parsed(Node("name", toks[i].v, <<>>), i + 1)
        ELSE IF toks[i].v = <<"(">> THEN
            IF IsOp(toks, i + 1, {<<")">>}) THEN Parsed(Node("tuple", <<>>, <<>>), i + 2)
            ELSE LET r == PyRule("expr", toks, i + 1, NoNode)
                 IN IF r.ok /\ IsOp(toks, r.next, {<<")">>}) THEN Parsed(r.node, r.next + 1)
                    ELSE SyntaxError
        ELSE SyntaxError

PyExpr(toks, i) == PyRule("expr", toks, i, NoNode)

\* the whole token list must be one expression
PyParse(toks) ==
    LET r == PyExpr(toks, 1)
    IN IF r.ok /\ r.next = Len(toks) + 1 THEN r ELSE SyntaxError

\* Python objects: a number (int, or float when the flag is set), the empty
\* tuple, a function of the namespace
PyNum(v, f) == [k |-> "num", v |-> v, float |-> f, name |-> <<>>]

PyTuple == [k |-> "tuple", v |-> NoValue, float |-> FALSE, name |-> <<>>]

PyFunc(name) == [k |-> "func", v |-> NoValue, float |-> FALSE, name |-> name]

PyNone == [k |-> "none", v |-> NoValue, float |-> FALSE, name |-> <<>>]

\* outcome of an evaluation: an object, or an exception by class (with the
\* name a NameError is about)
Returns(obj) == [st |-> "ok", obj |-> obj, exc |-> "", name |-> <<>>]

Throws(exc, name) == [st |-> "raise", obj |-> PyNone, exc |-> exc, name |-> name]

PyUnmodelled == [st |-> "unmodelled", obj |-> PyNone, exc |-> "", name |-> <<>>]

\* the class of the exception behind a message of the number model
ExceptionClass(msg) ==
    CASE msg \in {"float division by zero", "complex division by zero",
                  "0.0 cannot be raised to a negative power"} -> "ZeroDivisionError"
      [] msg = "math domain error" -> "ValueError"
      [] msg = "must be real number, not complex" -> "TypeError"
      [] OTHER -> "unmodelled"

\* from an outcome of the number model
FromNumber(r, f) ==
    IF r.ok THEN Returns(PyNum(r.v, f))
    ELSE IF ExceptionClass(r.error.msg) = "unmodelled" THEN PyUnmodelled
    ELSE Throws(ExceptionClass(r.error.msg), <<>>)

\* a namespace dictionary {**constants, **functions, **variables}
Namespace(consts, funcs, vars_) == [constants |-> consts, functions |-> funcs, variables |-> vars_]

Lookup(env, name) ==
    IF name \in DOMAIN env.variables THEN Returns(env.variables[name])
    ELSE IF name \in env.functions THEN Returns(PyFunc(name))
    ELSE IF name \in env.constants THEN Returns(PyNum(ConstantValue(name), TRUE))
    ELSE Throws("NameError", name)

\* +x and -x
PyUnary(op, a) ==
    IF a.k # "num" THEN Throws("TypeError", <<>>)
    ELSE IF op = <<"+">> THEN Returns(a)
    ELSE FromNumber(PySub(Rat(0, 1), a.v), a.float)

\* is the number a negative int
NegativeInt(a) == ~a.float /\ IsRat(a.v) /\ a.v.n < 0

\* x op y
PyBinary(op, a, b) ==
    IF op = <<"@">> THEN Throws("TypeError", <<>>)
    ELSE IF a.k = "num" /\ b.k = "num" THEN
        FromNumber(ApplyOperator(op, a.v, b.v),
                   \/ a.float
                   \/ b.float
                   \/ op = <<"/">>
                   \/ (op = <<"*", "*">> /\ NegativeInt(b)))
    ELSE IF a.k = "tuple" /\ b.k = "tuple" /\ op = <<"+">> THEN Returns(PyTuple)
    ELSE IF op = <<"*">> /\ a.k = "tuple" /\ b.k = "num" /\ ~b.float THEN Returns(PyTuple)
    ELSE IF op = <<"*">> /\ a.k = "num" /\ ~a.float /\ b.k = "tuple" THEN Returns(PyTuple)
    ELSE Throws("TypeError", <<>>)

IntegerValued == {"floor", "ceil", "round"}

\* f(*args)
PyCall(f, args) ==
    IF f.k # "func" THEN Throws("TypeError", <<>>)
    ELSE IF Len(args) # 1 \/ args[1].k # "num" THEN Throws("TypeError", <<>>)
    ELSE IF f.name \notin EvaluatedFunctions THEN PyUnmodelled
    ELSE FromNumber(ApplyFunction(f.name, args[1].v),
                    IF NameOf(f.name) = "abs" THEN args[1].float
                    ELSE NameOf(f.name) \notin IntegerValued)

\* evaluation of a syntax tree, operands from the left
RECURSIVE PyEvalNode(_, _)
PyEvalNode(node, env) ==
    IF node.kind = "num" THEN Returns(PyNum(Rat(DigitsVal(node.text), 1), FALSE))
    ELSE IF node.kind = "name" THEN Lookup(env, node.text)
    ELSE IF node.kind = "tuple" THEN Returns(PyTuple)
    ELSE IF node.kind = "unary" THEN
        LET a == PyEvalNode(node.kids[1], env)
        IN IF a.st # "ok" THEN a ELSE PyUnary(node.text, a.obj)
    ELSE IF node.kind = "binary" THEN
        LET a == PyEvalNode(node.kids[1], env) IN
        IF a.st # "ok" THEN a
        ELSE LET b == PyEvalNode(node.kids[2], env)
             IN IF b.st # "ok" THEN b ELSE PyBinary(node.text, a.obj, b.obj)
    ELSE IF node.kind = "call" THEN
        LET f == PyEvalNode(node.kids[1], env) IN
        IF f.st # "ok" THEN f
        ELSE IF Len(node.kids) = 1 THEN PyCall(f.obj, <<>>)
        ELSE LET a == PyEvalNode(node.kids[2], env)
             IN IF a.st # "ok" THEN a ELSE PyCall(f.obj, <<a.obj>>)
    ELSE PyUnmodelled

\* eval(text, env)
PyEval(text, env) ==
    LET lx == PyLex(text) IN
    IF lx.st = "unmodelled" THEN PyUnmodelled
    ELSE IF lx.st = "syntax" THEN Throws("SyntaxError", <<>>)
    ELSE LET r == PyParse(lx.toks)
         IN IF ~r.ok THEN Throws("SyntaxError", <<>>) ELSE PyEvalNode(r.node, env)

(***************************************************************************)
(* utils.py  CalculatorUtils.safe_eval                                     *)
(***************************************************************************)
UtilsConstants == {<<"p", "i">>, <<"U+03C0">>, <<"e">>, <<"i", "n", "f">>, <<"U+221E">>, <<"p", "h", "i">>}

UtilsFunctions == EvaluatedFunctions \cup {<<"l", "o", "g", "2">>}

\* re.sub(r'\^', '**', expression)
PowerToPython(e) == Replace(e, "^", <<"*", "*">>)

\* what safe_eval does: it returns an object, or raises ValueError; cause is
\* the validator's message or the class of the exception eval raised
SafeReturn(obj) == [raised |-> FALSE, obj |-> obj, cause |-> "", name |-> <<>>]

SafeRaise(cause, name) == [raised |-> TRUE, obj |-> PyNone, cause |-> cause, name |-> name]

safe_eval(e, b) ==
    LET safe_dict == Namespace(UtilsConstants, UtilsFunctions, BindingMap(b))
        text == PowerToPython(e)
        chk == validate_expression(text)
    IN IF ~chk.valid THEN SafeRaise(chk.msg, <<>>)
       ELSE LET r == PyEval(text, safe_dict)
            IN IF r.st = "ok" THEN SafeReturn(r.obj)
               ELSE IF r.st = "raise" THEN SafeRaise(r.exc, r.name)
               ELSE SafeRaise("unmodelled", <<>>)

(***************************************************************************)
(* modules/basic_math.py  BasicMathOperations.evaluate_expression          *)
(***************************************************************************)
BasicConstants == constants \cup {<<"U+00CF", "U+20AC">>}

BasicFunctions ==
    EvaluatedFunctions \cup
    {<<"a", "t", "a", "n", "2">>, <<"a", "s", "i", "n", "h">>,
     <<"a", "c", "o", "s", "h">>, <<"a", "t", "a", "n", "h">>,
     <<"l", "o", "g", "2">>, <<"p", "o", "w">>, <<"c", "b", "r", "t">>,
     <<"s", "i", "g", "n">>, <<"t", "r", "u", "n", "c">>,
     <<"f", "a", "c", "t", "o", "r", "i", "a", "l">>, <<"g", "c", "d">>,
     <<"l", "c", "m">>, <<"m", "a", "x">>, <<"m", "i", "n">>}

StartsWithAt(s, i, t) == i + Len(t) - 1 <= Len(s) /\ SubSeq(s, i, i + Len(t) - 1) = t

\* s.replace(old, new)
RECURSIVE ReplaceText(_, _, _)
ReplaceText(s, old, new) ==
    IF s = <<>> THEN <<>>
    ELSE IF StartsWithAt(s, 1, old)
         THEN new \o ReplaceText(SubSeq(s, Len(old) + 1, Len(s)), old, new)
    ELSE <<Head(s)>> \o ReplaceText(Tail(s), old, new)

\* the replacements of _preprocess_expression, in the dictionary's order; the
\* keys are the character pairs and triples the source file holds
BasicReplacements ==
    <<[old |-> <<"U+00C3", "U+2014">>, new |-> <<"*">>],
      [old |-> <<"U+00C3", "U+00B7">>, new |-> <<"/">>],
      [old |-> <<"U+00C2", "U+00B2">>, new |-> <<"*", "*", "2">>],
      [old |-> <<"U+00C2", "U+00B3">>, new |-> <<"*", "*", "3">>],
      [old |-> <<"U+00E2", "U+02C6", "U+0161">>, new |-> <<"s", "q", "r", "t">>],
      [old |-> <<"U+00CF", "U+20AC">>, new |-> <<"p", "i">>],
      [old |-> <<"U+00E2", "U+02C6", "U+017E">>, new |-> <<"i", "n", "f">>]>>

RECURSIVE ReplaceBasic(_, _)
ReplaceBasic(s, i) ==
    IF i > Len(BasicReplacements) THEN s
    ELSE ReplaceBasic(ReplaceText(s, BasicReplacements[i].old, BasicReplacements[i].new),
                      i + 1)

\* re.sub(r'\s+', '', expr)
RECURSIVE RemoveWhiteSpace(_)
RemoveWhiteSpace(s) ==
    IF s = <<>> THEN <<>>
    ELSE IF Head(s) \in WhiteSpace THEN RemoveWhiteSpace(Tail(s))
    ELSE <<Head(s)>> \o RemoveWhiteSpace(Tail(s))

_add_implicit_multiplication(e) ==
    LET s1 == InsertStar(e, Digits, AsciiLetters)
        s2 == InsertStar(s1, Digits, {"("})
    IN InsertStar(s2, {")"}, AsciiLetters \cup Digits)

_preprocess_expression(e) ==
    PowerToPython(_add_implicit_multiplication(ReplaceBasic(RemoveWhiteSpace(e), 1)))

\* _format_result: a float with an integer value becomes an int
_format_result(obj) ==
    IF obj.k = "num" /\ obj.v.k = "cplx" THEN PyUnmodelled
    ELSE IF obj.k = "num" /\ obj.float /\ IsRat(obj.v) /\ obj.v.d = 1
         THEN Returns(PyNum(obj.v, FALSE))
    ELSE Returns(obj)

\* BasicMathOperations.evaluate_expression(expression): the formatted result,
\* or ValueError for whatever exception the evaluation raised
BasicEvaluate(e) ==
    LET r == PyEval(_preprocess_expression(e), Namespace(BasicConstants, BasicFunctions,
                                                         [n \in {} |-> PyNone]))
    IN IF r.st = "ok" THEN _format_result(r.obj)
       ELSE IF r.st = "raise" THEN Throws("ValueError", r.name)
       ELSE PyUnmodelled

(***************************************************************************)
(* switch.py  CalculusRouter                                               *)
(***************************************************************************)
\* str.lower()
LowerText(s) == [i \in 1..Len(s) |-> Lower(s[i])]

\* re.search of  a.*?b : text a, then later text b, no newline in between
FollowedBy(s, a, b) ==
    \E i \in 1..Len(s) :
        /\ StartsWithAt(s, i, a)
        /\ \E j \in (i + Len(a))..Len(s) :
              /\ StartsWithAt(s, j, b)
              /\ \A k \in (i + Len(a))..(j - 1) : s[k] # "\n"

determine_operation(e) ==
    LET s == Strip(LowerText(e)) IN
    IF \/ FollowedBy(s, <<"d", "/", "d", "x", "[">>, <<"]">>)
       \/ FollowedBy(s, <<"d", "e", "r", "i", "v", "a", "t", "i", "v", "e", "(">>, <<")">>)
       \/ FollowedBy(s, <<"d", "i", "f", "f", "(">>, <<")">>)
       \/ FollowedBy(s, <<"d", "(">>, <<")", "/", "d", "x">>)
       \/ FollowedBy(s, <<"'", "(">>, <<")">>)
    THEN "derivative"
    ELSE IF \/ FollowedBy(s, <<"U+222B">>, <<"d", "x">>)
            \/ FollowedBy(s, <<"i", "n", "t", "e", "g", "r", "a", "l", "(">>, <<")">>)
            \/ FollowedBy(s, <<"i", "n", "t", "(">>, <<")">>)
            \/ FollowedBy(s, <<"d", "e", "f", "i", "n", "i", "t", "e", "(">>, <<")">>)
            \/ FollowedBy(s, <<"U+222B">>, <<"|">>)
    THEN "integral"
    ELSE "basic_math"

\* what route_calculation returns: the text of the result, or, when the
\* engine raised, the text "Calculation error: ..."; the text is kept as the
\* object or the exception it was made from
Routed(failed, obj, name) == [failed |-> failed, obj |-> obj, name |-> name, known |-> TRUE]

RouteUnmodelled == [failed |-> FALSE, obj |-> PyNone, name |-> <<>>, known |-> FALSE]

route_calculation(e, operation_type) ==
    IF operation_type # "basic_math" THEN RouteUnmodelled
    ELSE LET r == BasicEvaluate(e)
         IN IF r.st = "ok" THEN Routed(FALSE, r.obj, <<>>)
            ELSE IF r.st = "raise" THEN Routed(TRUE, PyNone, r.name)
            ELSE RouteUnmodelled

(***************************************************************************)
(* calculator.py  CalculusCalculator.calculate                             *)
(***************************************************************************)
\* the dictionary calculate returns: its keys, and the values under them
CalcDict(keys, success, error, e, op, res) ==
    [keys |-> keys, success |-> success, error |-> error, expression |-> e,
     operation_type |-> op, result |-> res]

calculate(e) ==
    LET cleaned == clean_expression(e) IN
    IF cleaned = <<>> THEN
        CalcDict({"error"}, FALSE, "Empty expression provided", <<>>, "", RouteUnmodelled)
    ELSE LET op == determine_operation(cleaned)
         IN CalcDict({"expression", "operation_type", "result", "success"}, TRUE, "",
                     cleaned, op, route_calculation(cleaned, op))

(***************************************************************************)
(* A caller of the utilities: one call of one of the four methods          *)
(***************************************************************************)
MaxText == 3

UtilsChars == {"2", "x", "+", "^", "(", ")", " ", "@"}

RECURSIVE Texts(_)
Texts(k) ==
    IF k = 0 THEN {<<>>}
    ELSE LET shorter == Texts(k - 1)
         IN shorter \cup {Append(t, c) : t \in shorter, c \in UtilsChars}

UtilsScenarios ==
    {<<"2", " ", "+", " ", "+", " ", "3">>, <<"s", "i", "n", "(">>,
     <<"u", "n", "k", "n", "o", "w", "n", "_", "f", "u", "n", "c", "(", "x", ")">>,
     <<"(", "(", "x", " ", "+", " ", "1", ")">>, <<"x", " ", "+", " ", "@">>,
     <<"2", "^", "3">>, <<"x", "^", "y">>, <<"2", "x">>,
     <<"3", "(", "x", "+", "1", ")">>, <<"x", "(", "y", "+", "z", ")">>,
     <<"(", "a", "+", "b", ")", "(", "c", "+", "d", ")">>,
     <<"2", " ", "+", " ", "3">>, <<"x", " ", "+", " ", "y">>}

UtilsInputs == Texts(MaxText) \cup UtilsScenarios

YName == <<"y">>

UtilsBindings ==
    {Binding(FALSE, [n \in {} |-> PyNone]),
     Binding(TRUE, [n \in {XName, YName} |->
                       IF n = XName THEN PyNum(Rat(2, 1), FALSE)
                       ELSE PyNum(Rat(3, 1), FALSE)])}

\* the outcome of a call, tagged with the method called
Called(op, out) == [op |-> op, out |-> out]

UtilsInit ==
    /\ expression \in UtilsInputs
    /\ variables \in UtilsBindings
    /\ pc = "start"
    /\ expr = <<>>
    /\ position = 0
    /\ tokens = <<>>
    /\ output = <<>>
    /\ operator_stack = <<>>
    /\ tidx = 1
    /\ postfix = <<>>
    /\ stack = <<>>
    /\ eidx = 1
    /\ result = NoResult
    /\ calls = <<>>
    /\ history = <<>>

CleanExpression ==
    /\ pc = "start"
    /\ result' = Called("clean_expression", clean_expression(expression))
    /\ pc' = "done"
    /\ UNCHANGED <<history, expression, variables, expr, position, tokens, output,
                   operator_stack, tidx, postfix, stack, eidx, calls>>

ValidateExpression ==
    /\ pc = "start"
    /\ result' = Called("validate_expression", validate_expression(expression))
    /\ pc' = "done"
    /\ UNCHANGED <<history, expression, variables, expr, position, tokens, output,
                   operator_stack, tidx, postfix, stack, eidx, calls>>

SafeEval ==
    /\ pc = "start"
    /\ result' = Called("safe_eval", safe_eval(expression, variables))
    /\ pc' = "done"
    /\ UNCHANGED <<history, expression, variables, expr, position, tokens, output,
                   operator_stack, tidx, postfix, stack, eidx, calls>>

Calculate ==
    /\ pc = "start"
    /\ result' = Called("calculate", calculate(expression))
    /\ pc' = "done"
    /\ UNCHANGED <<history, expression, variables, expr, position, tokens, output,
                   operator_stack, tidx, postfix, stack, eidx, calls>>

UtilsNext ==
    \/ CleanExpression
    \/ ValidateExpression
    \/ SafeEval
    \/ Calculate

UtilsSpec == UtilsInit /\ [][UtilsNext]_vars

(***************************************************************************)
(* Sanity of the model                                                     *)
(***************************************************************************)
\* no run reaches an operation whose outcome the number model cannot tell
ModelExact == result.error.msg # "unmodelled"

\* no call of the utilities reaches a text the Python model cannot evaluate
UtilsExact ==
    /\ (pc = "done" /\ result.op = "safe_eval") => result.out.cause # "unmodelled"
    /\ (pc = "done" /\ result.op = "calculate" /\ "result" \in result.out.keys) =>
          result.out.result.known

\* the step-by-step run returns what the chained functions return
StepwiseAgrees == pc = "done" => result = evaluate_expression(expression, variables)

(***************************************************************************)
(* Vocabulary of the properties                                            *)
(***************************************************************************)
InCalls(name) == \E i \in 1..Len(calls) : calls[i] = name

\* tokenize has returned: tokens ends with the EOF token
TokensComplete == pc \notin {"start", "tokenize"}

\* validate_syntax accepted the tokens and the converter has finished
Converted == pc \in {"evaluate", "done"} /\ InCalls("evaluate_postfix")

OperandTypes == {"NUMBER", "VARIABLE", "CONSTANT"}

Values(toks) == [i \in 1..Len(toks) |-> toks[i].value]

\* '(' minus ')' among the first i tokens
ParenDepth(toks, i) ==
    Cardinality({j \in 1..i : toks[j].type = "LEFT_PAREN"})
    - Cardinality({j \in 1..i : toks[j].type = "RIGHT_PAREN"})

ClosesUnopened(toks, i) == toks[i].type = "RIGHT_PAREN" /\ ParenDepth(toks, i) < 0

Unbalanced(toks) ==
    \/ ParenDepth(toks, Len(toks)) # 0
    \/ \E i \in 1..Len(toks) : ClosesUnopened(toks, i)

AdjacentOperators(toks, i) == i > 1 /\ toks[i - 1].type = "OPERATOR" /\ toks[i].type = "OPERATOR"

HasAdjacentOperators(toks) == \E i \in 1..Len(toks) : AdjacentOperators(toks, i)

MisplacedFunction(toks, i) ==
    /\ toks[i].type = "FUNCTION"
    /\ i > 1
    /\ toks[i - 1].type \notin {"OPERATOR", "LEFT_PAREN", "COMMA"}

HasMisplacedFunction(toks) == \E i \in 1..Len(toks) : MisplacedFunction(toks, i)

NoNonEndToken(toks) == toks[1].type = "EOF"

TrailingOperator(toks) == Len(toks) > 1 /\ toks[Len(toks) - 1].type = "OPERATOR"

\* exactly  operand OPERATOR operand OPERATOR operand  before the EOF token
IsInfix3(toks) ==
    /\ Len(toks) = 6
    /\ toks[1].type \in OperandTypes
    /\ toks[2].type = "OPERATOR"
    /\ toks[3].type \in OperandTypes
    /\ toks[4].type = "OPERATOR"
    /\ toks[5].type \in OperandTypes

\* a b c OP2 OP1
RightGrouped(toks) ==
    <<toks[1].value, toks[3].value, toks[5].value, toks[4].value, toks[2].value>>

\* the text  a OP1 ( b OP2 c )
ParenRight(toks) ==
    toks[1].value \o toks[2].value \o <<"(">> \o toks[3].value
        \o toks[4].value \o toks[5].value \o <<")">>

Precedence(tok) == operators[tok.value].precedence

(***************************************************************************)
(* C1                                                                      *)
(***************************************************************************)
DesyncMessages ==
    {"Insufficient operands for operator", "Insufficient arguments for function",
     "Invalid expression: incorrect number of values remaining"}

\* what the arities alone say of a postfix sequence: an operand adds a value,
\* an operator needs two and leaves one, a function needs one and leaves one
RECURSIVE ArityFrom(_, _, _)
ArityFrom(pf, i, depth) ==
    IF i > Len(pf) THEN
        (IF depth = 1 THEN "ok"
         ELSE "Invalid expression: incorrect number of values remaining")
    ELSE IF pf[i].type \in OperandTypes THEN ArityFrom(pf, i + 1, depth + 1)
    ELSE IF pf[i].type = "OPERATOR" THEN
        (IF depth < 2 THEN "Insufficient operands for operator"
         ELSE ArityFrom(pf, i + 1, depth - 1))
    ELSE IF pf[i].type = "FUNCTION" THEN
        (IF depth < 1 THEN "Insufficient arguments for function"
         ELSE ArityFrom(pf, i + 1, depth))
    ELSE ArityFrom(pf, i + 1, depth)

ArityOutcome(pf) == ArityFrom(pf, 1, 0)

C2_PrecedenceLaw ==
    (Converted /\ IsInfix3(tokens) /\ Precedence(tokens[4]) > Precedence(tokens[2])) =>
        /\ Values(postfix) = RightGrouped(tokens)
        /\ pc = "done" =>
              Outcome(result) = Outcome(evaluate_expression(ParenRight(tokens), variables))

C2_Witness ==
    /\ pc = "done"
    /\ IsInfix3(tokens)
    /\ Precedence(tokens[4]) > Precedence(tokens[2])
    /\ result.success
    /\ result # evaluate_expression(
           <<"(">> \o tokens[1].value \o tokens[2].value \o tokens[3].value \o <<")">>
               \o tokens[4].value \o tokens[5].value, variables)

(***************************************************************************)
(* C3                                                                      *)
(***************************************************************************)
PowerLexemes == {<<"^">>, <<"*", "*">>}

TwoPowThreePowTwo == <<"2", "^", "3", "^", "2">>

\* C3: a ^ b ^ c, with either operator possibly written **, converts to
\* a b c ^ ^ and evaluates as a^(b^c); 2^3^2 gives 512.
C3_PowerRightAssociative ==
    (Converted /\ IsInfix3(tokens)
        /\ tokens[2].value \in PowerLexemes /\ tokens[4].value \in PowerLexemes) =>
        /\ Values(postfix) = RightGrouped(tokens)
        /\ pc = "done" =>
              /\ Outcome(result) =
                     Outcome(evaluate_expression(ParenRight(tokens), variables))
              /\ expression = TwoPowThreePowTwo =>
                     (result.success /\ result.result = Rat(512, 1))

C3_Witness ==
    /\ pc = "done"
    /\ expression = TwoPowThreePowTwo
    /\ result.result = Rat(512, 1)

(***************************************************************************)
(* C4                                                                      *)
(***************************************************************************)
\* C4: tokens with unequal numbers of '(' and ')', or a ')' before its '(',
\* are rejected by validate_syntax, and evaluate_expression fails without
\* running parse_to_postfix or evaluate_postfix.
C4_BalanceInvariant ==
    (TokensComplete /\ Unbalanced(tokens)) =>
        /\ ~validate_syntax(tokens).valid
        /\ pc \in {"validate", "done"}
        /\ ~InCalls("parse_to_postfix")
        /\ ~InCalls("evaluate_postfix")
        /\ pc = "done" => ~result.success

C4_Witness ==
    /\ pc = "done"
    /\ Unbalanced(tokens)
    /\ ParenDepth(tokens, Len(tokens)) > 0
    /\ ~result.success

(***************************************************************************)
(* C5                                                                      *)
(***************************************************************************)
\* C5: two adjacent OPERATOR tokens fail validation, with the
\* consecutive-operators message when no other rule is violated, and neither
\* the converter nor the evaluator runs; evaluate_postfix is reached only
\* after validate_syntax returned valid.
C5_ConsecutiveOperators ==
    /\ (TokensComplete /\ HasAdjacentOperators(tokens)) =>
          /\ pc \in {"validate", "done"}
          /\ ~InCalls("parse_to_postfix")
          /\ ~InCalls("evaluate_postfix")
          /\ pc = "done" =>
                /\ ~result.success
                /\ (~Unbalanced(tokens) /\ ~HasMisplacedFunction(tokens)) =>
                       result.error.msg = "Consecutive operators at position"
    /\ InCalls("evaluate_postfix") =>
          /\ TokensComplete
          /\ validate_syntax(tokens).valid
          /\ ~HasAdjacentOperators(tokens)
          /\ \E i, j \in 1..Len(calls) :
                i < j /\ calls[i] = "validate_syntax" /\ calls[j] = "evaluate_postfix"

C5_Witness ==
    /\ pc = "done"
    /\ HasAdjacentOperators(tokens)
    /\ tokens[2].value # tokens[3].value
    /\ result.error.msg = "Consecutive operators at position"
    /\ ~InCalls("evaluate_postfix")

(***************************************************************************)
(* C6                                                                      *)
(***************************************************************************)
ParenMessages == {"Unmatched closing parenthesis at position", "Unmatched parentheses"}

\* the messages the fixed rule order (1) non-empty, (2) parentheses,
\* (3) consecutive operators, (4) function placement, (5) trailing operator
\* allows for a rejected token sequence
RuleOrderMessages(toks) ==
    IF NoNonEndToken(toks) THEN {"Empty expression"}
    ELSE IF Unbalanced(toks) THEN ParenMessages
    ELSE IF HasAdjacentOperators(toks) THEN {"Consecutive operators at position"}
    ELSE IF HasMisplacedFunction(toks) THEN {"Invalid function call at position"}
    ELSE IF TrailingOperator(toks) THEN {"Expression cannot end with an operator"}
    ELSE {""}

\* C6 as claimed: the message returned is that of the first violated rule in
\* the order non-empty, parentheses, consecutive operators, function
\* placement, trailing operator.
C6_FixedRuleOrder ==
    TokensComplete => validate_syntax(tokens).error.msg \in RuleOrderMessages(tokens)

\* the first token at which a per-token rule is violated, 0 if none
FirstOffence(toks) ==
    LET bad == {i \in 1..Len(toks) :
                   \/ ClosesUnopened(toks, i)
                   \/ AdjacentOperators(toks, i)
                   \/ MisplacedFunction(toks, i)}
    IN IF bad = {} THEN 0 ELSE CHOOSE i \in bad : \A j \in bad : i <= j

\* the verdict of a single left-to-right scan
ScanVerdict(toks) ==
    IF NoNonEndToken(toks) THEN
        [valid |-> FALSE, error |-> Err("Empty expression", -1, <<>>)]
    ELSE LET i == FirstOffence(toks) IN
         IF i # 0 THEN
            [valid |-> FALSE,
             error |-> Err(IF toks[i].type = "RIGHT_PAREN"
                              THEN "Unmatched closing parenthesis at position"
                           ELSE IF toks[i].type = "OPERATOR"
                              THEN "Consecutive operators at position"
                           ELSE "Invalid function call at position",
                           toks[i].position, <<>>)]
         ELSE IF ParenDepth(toks, Len(toks)) # 0 THEN
            [valid |-> FALSE, error |-> Err("Unmatched parentheses", -1, <<>>)]
         ELSE IF TrailingOperator(toks) THEN
            [valid |-> FALSE,
             error |-> Err("Expression cannot end with an operator", -1, <<>>)]
         ELSE [valid |-> TRUE, error |-> NoError]

\* C6 amended: after the non-empty check validate_syntax scans the tokens once
\* from the left and returns the message of the first token that closes an
\* unopened parenthesis, follows an operator with an operator or misplaces a
\* function; only when no token does it reports unclosed parentheses, and
\* after that a trailing operator.  An input with an unclosed '(' and two
\* consecutive operators is reported with the consecutive-operators message.
C6_ScanOrder ==
    /\ TokensComplete => validate_syntax(tokens) = ScanVerdict(tokens)
    /\ (pc = "done" /\ ~InCalls("parse_to_postfix")) =>
          result = Failure(ScanVerdict(tokens).error, expression)

C6_Witness ==
    /\ pc = "done"
    /\ ParenDepth(tokens, Len(tokens)) > 0
    /\ HasAdjacentOperators(tokens)
    /\ result.error.msg = "Consecutive operators at position"

(***************************************************************************)
(* C7                                                                      *)
(***************************************************************************)
PostfixTypes == OperandTypes \cup {"OPERATOR", "FUNCTION"}

Emitted(toks) == {i \in 1..Len(toks) : toks[i].type \in PostfixTypes}

\* C7: the postfix of a validated token sequence has one entry for each
\* operand, operator and function token, each exactly once, and no
\* parenthesis, comma or EOF token.
C7_PostfixLength ==
    Converted =>
        /\ Len(postfix) = Cardinality(Emitted(tokens))
        /\ {postfix[i] : i \in 1..Len(postfix)} = {tokens[i] : i \in Emitted(tokens)}
        /\ \A i \in 1..Len(postfix) : postfix[i].type \in PostfixTypes

C7_Witness ==
    /\ Converted
    /\ \E i \in 1..Len(tokens) : tokens[i].type = "FUNCTION"
    /\ \E i \in 1..Len(tokens) : tokens[i].type = "LEFT_PAREN"
    /\ \E i \in 1..Len(tokens) : tokens[i].type = "OPERATOR"
    /\ Len(postfix) = 4

(***************************************************************************)
(* C8                                                                      *)
(***************************************************************************)
\* the evaluator is about to apply '/' to a right operand equal to zero
DivisionByZeroNext ==
    /\ pc = "evaluate"
    /\ eidx <= Len(postfix)
    /\ postfix[eidx].type = "OPERATOR"
    /\ postfix[eidx].value = <<"/">>
    /\ Len(stack) >= 2
    /\ IsZero(stack[Len(stack)])

\* C8 as claimed: a division by zero is not an error and evaluation continues.
C8_DivisionByZeroContinues ==
    [][DivisionByZeroNext => (pc' = "evaluate" /\ result' = result)]_vars

\* C8 amended: a division by zero is an error: evaluation stops at the '/' and
\* evaluate_expression returns a failure carrying the division-by-zero message
\* of the ZeroDivisionError, never a success.
C8_DivisionByZeroFails ==
    [][DivisionByZeroNext =>
          /\ pc' = "done"
          /\ ~result'.success
          /\ result'.error.msg \in {"float division by zero", "complex division by zero"}
          /\ result'.expression = expression]_vars

C8_Witness ==
    /\ pc = "done"
    /\ ~result.success
    /\ result.error.msg = "float division by zero"
    /\ postfix[eidx].value = <<"/">>

(***************************************************************************)
(* C9                                                                      *)
(***************************************************************************)
\* sqrt of a negative number, ln or log of a non-positive number, asin or
\* acos outside [-1, 1]
OutsideDomain(name, v) ==
    /\ v.k = "rat"
    /\ \/ name = <<"s","q","r","t">> /\ v.n < 0
       \/ name \in {<<"l","n">>, <<"l","o","g">>} /\ v.n <= 0
       \/ name \in {<<"a","s","i","n">>, <<"a","c","o","s">>}
          /\ (v.n > v.d \/ -v.n > v.d)

\* the evaluator is about to apply a function outside its domain
DomainViolationNext ==
    /\ pc = "evaluate"
    /\ eidx <= Len(postfix)
    /\ postfix[eidx].type = "FUNCTION"
    /\ Len(stack) >= 1
    /\ OutsideDomain(postfix[eidx].value, stack[Len(stack)])

\* C9 as claimed: a function applied outside its domain does not fail.
C9_DomainViolationContinues ==
    [][DomainViolationNext => (pc' = "evaluate" /\ result' = result)]_vars

\* C9 amended: a function applied to an argument outside its domain fails:
\* the math library raises, evaluation stops and evaluate_expression returns a
\* failure with the math-domain-error message, never a success with NaN or
\* infinity.
C9_DomainViolationFails ==
    [][DomainViolationNext =>
          /\ pc' = "done"
          /\ ~result'.success
          /\ result'.error.msg = "math domain error"]_vars

C9_Witness ==
    /\ pc = "done"
    /\ ~result.success
    /\ result.error.msg = "math domain error"
    /\ postfix[eidx].value = <<"s","q","r","t">>

(***************************************************************************)
(* C10                                                                     *)
(***************************************************************************)
SixKinds ==
    {"Undefined variable", "Unknown constant", "Unknown function",
     "Insufficient operands for operator", "Insufficient arguments for function",
     "Invalid expression: incorrect number of values remaining"}

\* messages of the exceptions Python raises in float() and in the operators
\* and functions
NumericMessages ==
    {"could not convert string to float", "float division by zero",
     "complex division by zero", "0.0 cannot be raised to a negative power",
     "math domain error", "must be real number, not complex"}

\* C10 as claimed: every failure of a validated expression is one of the six
\* kinds.
C10_ClosedTaxonomy ==
    (pc = "done" /\ InCalls("evaluate_postfix") /\ ~result.success) =>
        result.error.msg \in SixKinds

\* C10 amended: every failure of a validated expression is one of the six
\* kinds or the message of a Python exception: the number-text conversion of
\* a malformed NUMBER lexeme, or an arithmetic exception of an operator or
\* function; an unknown-operator failure cannot occur.
C10_TaxonomyWithNumericErrors ==
    (pc = "done" /\ InCalls("evaluate_postfix") /\ ~result.success) =>
        result.error.msg \in SixKinds \cup NumericMessages

C10_Witness ==
    /\ pc = "done"
    /\ InCalls("evaluate_postfix")
    /\ result.error.msg = "could not convert string to float"

(***************************************************************************)
(* C11                                                                     *)
(***************************************************************************)
\* the evaluator loop is at a token whose evaluation raises
EvalRaisesNext ==
    /\ pc = "evaluate"
    /\ eidx <= Len(postfix)
    /\ ~EvalToken(stack, postfix[eidx], BindingMap(variables)).ok

\* C11: every call of evaluate_expression returns a result tagged success or
\* failure (no state before the return is stuck, whatever a stage raises); a
\* success carries a value and no error, a failure an error and no value;
\* every result carries the expression text as the caller gave it; a failed
\* validation returns the validator's message unchanged, and the first
\* evaluator step that raises ends the call with the message of that raise.
C11_TaggedResults ==
    /\ [](pc # "done" => ENABLED <<Next>>_vars)
    /\ [](pc = "done" =>
            /\ result.expression = expression
            /\ result.success => (result.error = NoError /\ result.result # NoValue)
            /\ ~result.success => (result.error # NoError /\ result.result = NoValue)
            /\ ~InCalls("parse_to_postfix") =>
                  (~result.success /\ result.error = validate_syntax(tokens).error))
    /\ [][EvalRaisesNext =>
            /\ pc' = "done"
            /\ result' = Failure(EvalToken(stack, postfix[eidx],
                                           BindingMap(variables)).error, expression)]_vars

C11_Witness ==
    /\ pc = "done"
    /\ ~result.success
    /\ ~InCalls("parse_to_postfix")
    /\ expr # expression
    /\ result.expression = expression
    /\ result.error.msg = "Consecutive operators at position"

(***************************************************************************)
(* C12                                                                     *)
(***************************************************************************)
EndTokens(toks) == {i \in 1..Len(toks) : toks[i].type = "EOF"}

\* C12: every iteration of the tokenizer loop moves the cursor strictly
\* forward and never past the end of the text, so the loop ends; the token
\* list returned has exactly one EOF token, it is the last element, and its
\* position is the final cursor position.
C12_TokenizeTerminates ==
    /\ [][(pc = "tokenize" /\ position < Len(expr)) =>
             (position' > position /\ position' <= Len(expr))]_vars
    /\ [](TokensComplete =>
             /\ EndTokens(tokens) = {Len(tokens)}
             /\ tokens[Len(tokens)].position = position
             /\ position = Len(expr))
    /\ [](pc = "tokenize" => (EndTokens(tokens) = {} /\ ENABLED <<Next>>_vars))

C12_Witness ==
    /\ TokensComplete
    /\ Len(tokens) = 3
    /\ tokens[3].type = "EOF"
    /\ tokens[3].position = 3
    /\ \E i \in 1..Len(expr) : expr[i] = "@"

(***************************************************************************)
(* C13                                                                     *)
(***************************************************************************)
\* the text of the source at a token's position, as long as the token's value
SourceAt(e, tok) == SubSeq(e, tok.position + 1, tok.position + Len(tok.value))

\* C13: the position of every token is the offset of its lexeme in the
\* expression text the caller gave: the text found there is the token's value,
\* also when spaces precede the token.
C13_PositionsInSource ==
    TokensComplete =>
        \A i \in 1..Len(tokens) :
            tokens[i].type # "EOF" => SourceAt(expression, tokens[i]) = tokens[i].value

(***************************************************************************)
(* C14                                                                     *)
(***************************************************************************)
\* the text without its spaces, tabs and newlines
RECURSIVE DeleteBlanks(_)
DeleteBlanks(e) ==
    IF e = <<>> THEN <<>>
    ELSE IF <<Head(e)>> \in Blanks THEN DeleteBlanks(Tail(e))
    ELSE <<Head(e)>> \o DeleteBlanks(Tail(e))

KindsAndTexts(toks) == [i \in 1..Len(toks) |-> <<toks[i].type, toks[i].value>>]

\* C14: white space (space, tab, newline) is removed and never separates
\* tokens: the kinds and texts of the tokens of an expression are those of the
\* tokens of the expression with all white space deleted.
C14_WhitespaceRemoved ==
    TokensComplete =>
        KindsAndTexts(tokens) = KindsAndTexts(tokenize(DeleteBlanks(expression)))

(***************************************************************************)
(* C15                                                                     *)
(***************************************************************************)
\* the earlier calls of the session made with the present expression and
\* binding
SameCallBefore == {i \in 1..Len(history) :
                      /\ history[i].expression = expression
                      /\ history[i].variables = variables}

\* C15: within a session, whatever other evaluations ran before or in
\* between, a call returns the outcome (success flag, value, error) that every
\* earlier call with the same expression and the same binding returned.
C15_RepeatableOutcome ==
    pc = "done" => \A i \in SameCallBefore : history[i].outcome = Outcome(result)

C15_Witness ==
    /\ pc = "done"
    /\ Len(history) = 2
    /\ 1 \in SameCallBefore
    /\ history[2].expression # expression
    /\ history[2].outcome # Outcome(result)
    /\ result.success

(***************************************************************************)
(* C16                                                                     *)
(***************************************************************************)
\* the five rules, each over the whole token sequence
FiveRulesHold(toks) ==
    /\ ~NoNonEndToken(toks)
    /\ ~Unbalanced(toks)
    /\ ~HasAdjacentOperators(toks)
    /\ ~HasMisplacedFunction(toks)
    /\ ~TrailingOperator(toks)

\* C16: validate_syntax returns valid exactly when the token sequence has a
\* token other than EOF, its parenthesis count never goes negative and ends
\* at zero, no two OPERATOR tokens are adjacent, every FUNCTION token is first
\* or directly after an OPERATOR, LEFT_PAREN or COMMA, and the last token
\* before EOF is not an OPERATOR; the converter runs in exactly that case.
C16_ValidIffFiveRules ==
    /\ TokensComplete => (validate_syntax(tokens).valid <=> FiveRulesHold(tokens))
    /\ InCalls("parse_to_postfix") => FiveRulesHold(tokens)
    /\ (pc = "done" /\ ~InCalls("parse_to_postfix")) => ~FiveRulesHold(tokens)

C16_Witness ==
    /\ InCalls("parse_to_postfix")
    /\ \E i \in 2..Len(tokens) :
          tokens[i].type = "FUNCTION" /\ tokens[i - 1].type = "COMMA"

(***************************************************************************)
(* C17                                                                     *)
(***************************************************************************)
\* two operator characters with nothing but white space between them
OperatorsInARow(e) == HasOperatorRun(RemoveWhiteSpace(e))

\* the expressions the claim names as invalid: nothing to evaluate, operators
\* in a row, a parenthesis left open, or a name that is bound to nothing
InvalidExpression(e) ==
    \/ Strip(e) = <<>>
    \/ OperatorsInARow(e)
    \/ ~_check_balanced_parentheses(e)
    \/ LET r == BasicEvaluate(clean_expression(e))
       IN r.st = "raise" /\ r.exc = "NameError"

ReportsFailure(d) ==
    /\ "success" \in d.keys
    /\ ~d.success
    /\ "error" \in d.keys

\* C17: calculate reports every invalid expression as a failure: for the
\* empty expression, operators in a row ('2 + + 3'), an unclosed call
\* ('sin(') and an unknown name ('unknown_func(x)') the returned dict has
\* success false and an 'error' entry.
C17_InvalidReportedAsFailure ==
    (pc = "done" /\ result.op = "calculate" /\ InvalidExpression(expression))
        => ReportsFailure(result.out)

(***************************************************************************)
(* C18                                                                     *)
(***************************************************************************)
\* what the claim has validate_expression reject
MustBeRejected(e) ==
    \/ e = <<>>
    \/ OperatorsInARow(e)
    \/ ~_check_balanced_parentheses(e)
    \/ \E i \in 1..Len(e) : e[i] \notin ValidChars

\* C18: validate_expression rejects every expression in which two operators
\* follow one another, also when only white space separates them
\* ('2 + + 3'), as well as the empty expression, unbalanced parentheses and
\* characters outside the allowed set ('x + @').
C18_RejectsOperatorsInARow ==
    (pc = "done" /\ result.op = "validate_expression" /\ MustBeRejected(expression))
        => ~result.out.valid

(***************************************************************************)
(* C19                                                                     *)
(***************************************************************************)
\* an operand of one character: a digit, or a name bound in the mapping
IsOperand(c, b) ==
    \/ c \in Digits
    \/ b.given /\ <<c>> \in DOMAIN b.map

OperandValue(c, b) == IF c \in Digits THEN PyNum(Rat(DigitVal(c), 1), FALSE) ELSE b.map[<<c>>]

\* C19: safe_eval evaluates '^' as exponentiation: for operands a and b
\* (literals, or variables bound in the mapping) safe_eval of 'a^b' returns
\* a to the power b and raises nothing, e.g. '2^3' = 8 and 'x^y' with
\* {x: 2, y: 3} = 8.
C19_CaretIsPower ==
    (/\ pc = "done"
     /\ result.op = "safe_eval"
     /\ Len(expression) = 3
     /\ expression[2] = "^"
     /\ IsOperand(expression[1], variables)
     /\ IsOperand(expression[3], variables))
        => /\ ~result.out.raised
           /\ result.out.obj =
                 PyNum(Rat(OperandValue(expression[1], variables).v.n
                              ^ OperandValue(expression[3], variables).v.n, 1), FALSE)

(***************************************************************************)
(* C20                                                                     *)
(***************************************************************************)
\* a name of one letter: a letter with no letter on either side
IsVariableAt(s, i) ==
    /\ s[i] \in AsciiLetters
    /\ i > 1 => s[i - 1] \notin AsciiLetters
    /\ i < Len(s) => s[i + 1] \notin AsciiLetters

\* a product written without '*' between positions i and i + 1
ImplicitProductAt(s, i) ==
    \/ s[i] \in Digits /\ s[i + 1] \in AsciiLetters
    \/ s[i] \in Digits /\ s[i + 1] = "("
    \/ IsVariableAt(s, i) /\ s[i + 1] = "("
    \/ s[i] = ")" /\ s[i + 1] = "("

CleaningExamples ==
    {<<(<<"2", "x">>), (<<"2", "*", "x">>)>>,
     <<(<<"3", "(", "x", "+", "1", ")">>), (<<"3", "*", "(", "x", "+", "1", ")">>)>>,
     <<(<<"x", "(", "y", "+", "z", ")">>), (<<"x", "*", "(", "y", "+", "z", ")">>)>>,
     <<(<<"(", "a", "+", "b", ")", "(", "c", "+", "d", ")">>),
       (<<"(", "a", "+", "b", ")", "*", "(", "c", "+", "d", ")">>)>>}

\* C20: clean_expression makes every implicit multiplication explicit: the
\* text it returns has no digit directly before a letter or '(', no variable
\* directly before '(' and no ')' directly before '(', and '2x', '3(x+1)',
\* 'x(y+z)' and '(a+b)(c+d)' become '2*x', '3*(x+1)', 'x*(y+z)' and
\* '(a+b)*(c+d)'.
C20_ImplicitProductsExplicit ==
    (pc = "done" /\ result.op = "clean_expression")
        => /\ \A i \in 1..(Len(result.out) - 1) : ~ImplicitProductAt(result.out, i)
           /\ \A ex \in CleaningExamples : expression = ex[1] => result.out = ex[2]

(***************************************************************************)
(* C21                                                                     *)
(***************************************************************************)
\* digits with at most one '.', at least one digit
IsMantissa(s) ==
    /\ \A i \in 1..Len(s) : s[i] \in Digits \cup {"."}
    /\ Cardinality({i \in 1..Len(s) : s[i] = "."}) <= 1
    /\ \E i \in 1..Len(s) : s[i] \in Digits

\* 'e' or 'E', an optional sign, at least one digit
IsExponent(s) ==
    /\ Len(s) >= 2
    /\ s[1] \in {"e", "E"}
    /\ LET ds == IF s[2] \in {"+", "-"} THEN SubSeq(s, 3, Len(s)) ELSE Tail(s)
       IN ds # <<>> /\ \A i \in 1..Len(ds) : ds[i] \in Digits

WellFormedNumber(s) ==
    \E k \in 1..Len(s) :
        /\ IsMantissa(SubSeq(s, 1, k))
        /\ k = Len(s) \/ IsExponent(SubSeq(s, k + 1, Len(s)))

\* C21: every NUMBER token of tokenize has a well-formed lexeme (digits with
\* at most one '.', optionally an exponent of 'e' or 'E', an optional sign and
\* at least one digit), so the conversion of a NUMBER token's text in
\* evaluate_postfix never fails.
C21_NumberLexemesWellFormed ==
    /\ \A i \in 1..Len(tokens) :
          tokens[i].type = "NUMBER" => WellFormedNumber(tokens[i].value)
    /\ pc = "done" => result.error.msg # "could not convert string to float"

(***************************************************************************)
(* C22                                                                     *)
(***************************************************************************)
\* the FUNCTION tokens of a sequence (a token is told apart by its position)
FunctionsIn(seq) == {seq[i] : i \in {j \in 1..Len(seq) : seq[j].type = "FUNCTION"}}

\* the FUNCTION tokens a step moves to the output
EmittedFunctions == FunctionsIn(output') \ FunctionsIn(output)

\* the index in tokens of a token of the stack or the output
IndexOf(tok) == CHOOSE i \in 1..Len(tokens) : tokens[i] = tok

\* the function is written as a call: '(' follows it directly
OpensCall(tok) == tokens[IndexOf(tok) + 1].type = "LEFT_PAREN"

\* the index of the ')' that closes the '(' at index i, 0 if none does
ClosingParen(i) ==
    LET closers == {j \in (i + 1)..Len(tokens) :
                       /\ tokens[j].type = "RIGHT_PAREN"
                       /\ ParenDepth(tokens, j) = ParenDepth(tokens, i) - 1}
    IN IF closers = {} THEN 0 ELSE CHOOSE j \in closers : \A k \in closers : j <= k

\* the step processes a RIGHT_PAREN token
AtRightParen == pc = "convert" /\ tidx <= Len(tokens) /\ tokens[tidx].type = "RIGHT_PAREN"

\* the whole input is one call  f ( inner )
IsCall(toks) ==
    /\ Len(toks) >= 5
    /\ toks[1].type = "FUNCTION"
    /\ toks[2].type = "LEFT_PAREN"
    /\ ClosingParen(2) = Len(toks) - 1

InnerTokens(toks) == Append(SubSeq(toks, 3, Len(toks) - 2), toks[Len(toks)])

\* f(expr) gives the postfix of expr, then f
CallEmitsArgumentThenFunction ==
    (Converted /\ IsCall(tokens)) =>
        postfix = Append(parse_to_postfix(InnerTokens(tokens)), tokens[1])

\* C22 as claimed: a FUNCTION token reaches the output only in the step that
\* processes a RIGHT_PAREN, never in the end-of-input drain or at a comma,
\* and f(expr) gives the postfix of expr followed by f.
C22_FunctionsLeaveAtRightParen ==
    /\ [][EmittedFunctions # {} => AtRightParen]_vars
    /\ []CallEmitsArgumentThenFunction

\* C22 amended: a FUNCTION token that is directly followed by '(' reaches the
\* output only in the step that processes the ')' closing that '(', never in
\* the end-of-input drain or at a comma, and f(expr) gives the postfix of
\* expr followed by f; a FUNCTION token not followed by '(' passes the
\* validator and is emitted by whichever drain reaches it.
C22_CalledFunctionsLeaveAtClosingParen ==
    /\ [][\A f \in EmittedFunctions :
             /\ OpensCall(f) => (AtRightParen /\ tidx = ClosingParen(IndexOf(f) + 1))
             /\ ~OpensCall(f) => (\/ pc = "convert" /\ tidx <= Len(tokens)
                                        /\ tokens[tidx].type \in {"COMMA", "RIGHT_PAREN"}
                                  \/ pc = "convert" /\ pc' = "evaluate")]_vars
    /\ []CallEmitsArgumentThenFunction

\* a call with a comma in its argument list has been converted
C22_Witness ==
    /\ Converted
    /\ IsCall(tokens)
    /\ \E i \in 1..Len(tokens) : tokens[i].type = "COMMA"
    /\ postfix[Len(postfix)] = tokens[1]

(***************************************************************************)
(* C23                                                                     *)
(***************************************************************************)
\* a b OP1 c OP2
LeftGrouped(toks) ==
    <<toks[1].value, toks[3].value, toks[2].value, toks[5].value, toks[4].value>>

\* the text  ( a OP1 b ) OP2 c
ParenLeft(toks) ==
    <<"(">> \o toks[1].value \o toks[2].value \o toks[3].value \o <<")">>
        \o toks[4].value \o toks[5].value

\* the text  a OP1 ( b OP2 c )  evaluates to something else
GroupingMatters(toks) ==
    Outcome(evaluate_expression(ParenLeft(toks), variables))
        # Outcome(evaluate_expression(ParenRight(toks), variables))

\* both operators additive, or both multiplicative
SameLeftLevel(toks) ==
    \/ {toks[2].value, toks[4].value} \subseteq {<<"+">>, <<"-">>}
    \/ {toks[2].value, toks[4].value} \subseteq {<<"*">>, <<"/">>}

EightMinusThreeMinusTwo == <<"8", "-", "3", "-", "2">>

EightOverFourTimesTwo == <<"8", "/", "4", "*", "2">>

\* C23: for OP1, OP2 both in {+,-} or both in {*,/}, a OP1 b OP2 c converts
\* to a b OP1 c OP2 and evaluates as (a OP1 b) OP2 c; 8 - 3 - 2 gives 3 and
\* 8 / 4 * 2 gives 4.
C23_LeftAssociative ==
    (Converted /\ IsInfix3(tokens) /\ SameLeftLevel(tokens)) =>
        /\ Values(postfix) = LeftGrouped(tokens)
        /\ pc = "done" =>
              /\ Outcome(result) =
                     Outcome(evaluate_expression(ParenLeft(tokens), variables))
              /\ expression = EightMinusThreeMinusTwo =>
                     (result.success /\ result.result = Rat(3, 1))
              /\ expression = EightOverFourTimesTwo =>
                     (result.success /\ result.result = Rat(4, 1))

C23_Witness ==
    /\ pc = "done"
    /\ IsInfix3(tokens)
    /\ SameLeftLevel(tokens)
    /\ result.success
    /\ GroupingMatters(tokens)

(***************************************************************************)
(* C24                                                                     *)
(***************************************************************************)
\* the evaluator is about to process an OPERATOR token
AtOperator == pc = "evaluate" /\ eidx <= Len(postfix) /\ postfix[eidx].type = "OPERATOR"

\* left - right and left / right of two rationals, by cross-multiplication
Difference(left, right) == Rat(left.n * right.d - right.n * left.d, left.d * right.d)

Ratio(left, right) == Rat(left.n * right.d, left.d * right.n)

\* what 'left OP right' is where the order of the operands shows
OrderedResult(op, left, right, v) ==
    (IsRat(left) /\ IsRat(right)) =>
        /\ op = <<"-">> => v = Difference(left, right)
        /\ (op = <<"/">> /\ right.n # 0) => v = Ratio(left, right)

FiveMinusThree == <<"5", "-", "3">>

TwoPowThree == <<"2", "^", "3">>

\* C24: on an OPERATOR token the evaluator needs two stacked values, takes
\* the top one as the right operand and the one below as the left operand
\* and pushes left OP right in their place (5 3 - gives 2, 2 3 ^ gives 8);
\* with fewer than two values it fails with the insufficient-operands error
\* and pushes nothing.
C24_OperatorPopsRightThenLeft ==
    /\ [][AtOperator =>
            IF Len(stack) < 2
            THEN /\ pc' = "done"
                 /\ ~result'.success
                 /\ result'.error.msg = "Insufficient operands for operator"
                 /\ result'.error.name = postfix[eidx].value
                 /\ stack' = stack
            ELSE /\ pc' = "done" =>
                       result'.error.msg # "Insufficient operands for operator"
                 /\ pc' = "evaluate" =>
                       /\ Len(stack') = Len(stack) - 1
                       /\ SubSeq(stack', 1, Len(stack) - 2) = SubSeq(stack, 1, Len(stack) - 2)
                       /\ OrderedResult(postfix[eidx].value, stack[Len(stack) - 1],
                                        stack[Len(stack)], stack'[Len(stack')])]_vars
    /\ [](pc = "done" =>
            /\ expression = FiveMinusThree => (result.success /\ result.result = Rat(2, 1))
            /\ expression = TwoPowThree => (result.success /\ result.result = Rat(8, 1)))

\* 5 - 3 has been evaluated
C24_Witness ==
    /\ pc = "done"
    /\ expression = FiveMinusThree
    /\ Values(postfix) = <<(<<"5">>), (<<"3">>), (<<"-">>)>>
    /\ result.result = Rat(2, 1)

\* an operator has met fewer than two values
C24_WitnessShort ==
    /\ pc = "done"
    /\ result.error.msg = "Insufficient operands for operator"

(***************************************************************************)
(* C25                                                                     *)
(***************************************************************************)
\* the converter is about to process a COMMA token
AtComma == pc = "convert" /\ tidx <= Len(tokens) /\ tokens[tidx].type = "COMMA"

\* the height of the topmost LEFT_PAREN of a stack, 0 if it holds none
TopParen(st) ==
    LET at == {i \in 1..Len(st) : st[i].type = "LEFT_PAREN"}
    IN IF at = {} THEN 0 ELSE CHOOSE i \in at : \A j \in at : j <= i

\* the entries above height k, topmost first
PoppedAbove(st, k) == [i \in 1..(Len(st) - k) |-> st[Len(st) + 1 - i]]

\* the index of the innermost '(' still open at token i, 0 if none
EnclosingParen(i) ==
    LET open == {j \in 1..(i - 1) :
                    /\ tokens[j].type = "LEFT_PAREN"
                    /\ ClosingParen(j) = 0 \/ ClosingParen(j) > i}
    IN IF open = {} THEN 0 ELSE CHOOSE j \in open : \A k \in open : k <= j

HoldsComma(seq) == \E i \in 1..Len(seq) : seq[i].type = "COMMA"

\* C25: on a COMMA the converter pops stack entries to the output until a
\* LEFT_PAREN is on top or the stack is empty; the LEFT_PAREN stays, the
\* comma is never emitted or stacked, and the function whose argument list
\* holds the comma stays on the stack until its closing parenthesis.
C25_CommaDrainsToParen ==
    /\ [][AtComma =>
            LET k == TopParen(operator_stack)
                p == EnclosingParen(tidx)
            IN /\ operator_stack' = SubSeq(operator_stack, 1, k)
               /\ output' = output \o PoppedAbove(operator_stack, k)
               /\ (p > 1 /\ tokens[p - 1].type = "FUNCTION") =>
                     /\ k > 1
                     /\ operator_stack'[k] = tokens[p]
                     /\ operator_stack'[k - 1] = tokens[p - 1]]_vars
    /\ [](~HoldsComma(output) /\ ~HoldsComma(operator_stack) /\ ~HoldsComma(postfix))
    /\ [][\A f \in EmittedFunctions :
             (OpensCall(f) /\ \E i \in 1..Len(tokens) :
                                 /\ tokens[i].type = "COMMA"
                                 /\ EnclosingParen(i) = IndexOf(f) + 1)
                 => tidx = ClosingParen(IndexOf(f) + 1)]_vars

\* a comma inside a call has popped an operator and left '(' and the function
C25_Witness ==
    /\ pc = "convert"
    /\ tidx > 1
    /\ tokens[tidx - 1].type = "COMMA"
    /\ Len(operator_stack) = 2
    /\ operator_stack[1].type = "FUNCTION"
    /\ operator_stack[2].type = "LEFT_PAREN"
    /\ output # <<>>
    /\ output[Len(output)].type = "OPERATOR"

(***************************************************************************)
(* C26                                                                     *)
(***************************************************************************)
\* the tokens of an argument, closed by the EOF token
ArgumentTokens(from, to) == Append(SubSeq(tokens, from, to), tokens[Len(tokens)])

\* a token sequence that is one complete expression by its arities
Complete(toks) ==
    /\ validate_syntax(toks).valid
    /\ ArityOutcome(parse_to_postfix(toks)) = "ok"

\* the index of the one comma of a call  f ( a , b ), 0 if the input is not
\* such a call of two complete arguments
CallComma ==
    IF ~IsCall(tokens) THEN 0
    ELSE LET commas == {i \in 1..Len(tokens) : tokens[i].type = "COMMA"}
         IN IF Cardinality(commas) # 1 THEN 0
            ELSE LET c == CHOOSE i \in commas : TRUE
                 IN IF /\ EnclosingParen(c) = 2
                       /\ Complete(ArgumentTokens(3, c - 1))
                       /\ Complete(ArgumentTokens(c + 1, Len(tokens) - 2))
                    THEN c ELSE 0

FirstArgument == evaluate_postfix(parse_to_postfix(ArgumentTokens(3, CallComma - 1)), variables)

\* C26 as claimed: f(a, b) always fails with the
\* incorrect-number-of-values error.
C26_TwoArgumentsLeaveTwoValues ==
    (pc = "done" /\ CallComma # 0) =>
        /\ ~result.success
        /\ result.error = IncorrectValues

\* C26 amended: f(a, b) never evaluates successfully.  When every token
\* evaluates, f consumes only the value of b, the value of a stays below the
\* result and the call fails with the incorrect-number-of-values error;
\* otherwise the call fails with the error of the first token that fails (an
\* undefined variable, or f or an operator raising on its operands).
C26_TwoArgumentsNeverSucceed ==
    /\ (pc = "done" /\ CallComma # 0) =>
          /\ ~result.success
          /\ eidx > Len(postfix) =>
                /\ result.error = IncorrectValues
                /\ Len(stack) = 2
                /\ stack[1] = FirstArgument.v
          /\ eidx <= Len(postfix) =>
                /\ result.error # IncorrectValues
                /\ result.error.msg \notin DesyncMessages
    /\ (pc = "evaluate" /\ CallComma # 0 /\ eidx = Len(postfix)) =>
          /\ postfix[eidx] = tokens[1]
          /\ Len(stack) = 2

\* both arguments evaluated and two values were left
C26_Witness ==
    /\ pc = "done"
    /\ CallComma # 0
    /\ result.error = IncorrectValues
    /\ Len(stack) = 2
    /\ \E i \in 1..Len(postfix) : postfix[i].type = "OPERATOR"

(***************************************************************************)
(* C27                                                                     *)
(***************************************************************************)
IdentifierTypes == {"FUNCTION", "CONSTANT", "VARIABLE"}

\* letters, digits and '_'
IdentifierChars == Letters \cup Digits \cup {"_"}

\* the token's lexeme is the whole run of identifier characters that starts
\* at its position in the scanned text
GreedyLexeme(tok) ==
    LET from == tok.position + 1
        to == tok.position + Len(tok.value)
    IN /\ tok.value # <<>>
       /\ to <= Len(expr)
       /\ tok.value = SubSeq(expr, from, to)
       /\ expr[from] \in Letters
       /\ \A i \in from..to : expr[i] \in IdentifierChars
       /\ to < Len(expr) => expr[to + 1] \notin IdentifierChars

\* function set first, then constant set, else variable
ClassOf(lexeme) ==
    IF lexeme \in functions THEN "FUNCTION"
    ELSE IF lexeme \in constants THEN "CONSTANT"
    ELSE "VARIABLE"

PrefixExamples ==
    {<<"s", "i", "n", "x">>, <<"p", "i", "x">>, <<"e", "2">>}

\* C27: an identifier token holds the longest run of letters, digits and '_'
\* from its start and is classified as a whole: FUNCTION if the lexeme is in
\* the function set, otherwise CONSTANT if it is in the constant set,
\* otherwise VARIABLE; 'sinx', 'pix' and 'e2' are one VARIABLE token each.
C27_GreedyIdentifiers ==
    /\ \A i \in 1..Len(tokens) :
          tokens[i].type \in IdentifierTypes =>
              /\ GreedyLexeme(tokens[i])
              /\ tokens[i].type = ClassOf(tokens[i].value)
    /\ (TokensComplete /\ expression \in PrefixExamples) =>
          /\ Len(tokens) = 2
          /\ tokens[1] = Token("VARIABLE", expression, 0)

\* a lexeme that starts with a known name is one VARIABLE token
C27_Witness ==
    /\ TokensComplete
    /\ \E i \in 1..Len(tokens) :
          /\ tokens[i].type = "VARIABLE"
          /\ \E k \in 1..(Len(tokens[i].value) - 1) :
                SubSeq(tokens[i].value, 1, k) \in functions \cup constants

(***************************************************************************)
(* C28                                                                     *)
(***************************************************************************)
\* the caller's binding has no value for the name
Unbound(name) == ~variables.given \/ name \notin DOMAIN variables.map

\* the indices of the VARIABLE tokens of the postfix that have no value
UnboundAt ==
    {i \in 1..Len(postfix) : postfix[i].type = "VARIABLE" /\ Unbound(postfix[i].value)}

FirstUnbound == CHOOSE i \in UnboundAt : \A j \in UnboundAt : i <= j

UndefinedVariable(name) == Err("Undefined variable", -1, name)

\* C28 as claimed: when the postfix holds a VARIABLE without a value, the
\* evaluation stops at that token with the undefined-variable error naming it.
C28_UnboundVariableStopsEvaluation ==
    (pc = "done" /\ InCalls("evaluate_postfix") /\ UnboundAt # {}) =>
        /\ ~result.success
        /\ eidx = FirstUnbound
        /\ result.error = UndefinedVariable(postfix[FirstUnbound].value)

\* C28 amended: when the evaluator reaches a VARIABLE whose name has no value
\* in the binding (every name, when no binding is supplied) it stops there
\* with the undefined-variable error naming it, pushes nothing and returns no
\* value; a postfix that holds such a VARIABLE never evaluates successfully,
\* and fails with that error unless an earlier token has failed already.
C28_ReachedUnboundVariableStops ==
    /\ [][(/\ pc = "evaluate"
           /\ eidx <= Len(postfix)
           /\ postfix[eidx].type = "VARIABLE"
           /\ Unbound(postfix[eidx].value))
          => /\ pc' = "done"
             /\ result' = Failure(UndefinedVariable(postfix[eidx].value), expression)
             /\ stack' = stack]_vars
    /\ []((pc = "done" /\ InCalls("evaluate_postfix") /\ UnboundAt # {}) =>
            /\ ~result.success
            /\ result.result = NoValue
            /\ eidx <= FirstUnbound
            /\ eidx = FirstUnbound =>
                  result.error = UndefinedVariable(postfix[FirstUnbound].value)
            /\ eidx < FirstUnbound => result.error.msg # "Undefined variable")

\* a call with a binding has stopped at a name the binding lacks
C28_Witness ==
    /\ pc = "done"
    /\ variables.given
    /\ UnboundAt # {}
    /\ eidx = FirstUnbound
    /\ eidx > 1
    /\ result.error = UndefinedVariable(postfix[eidx].value)

(***************************************************************************)
(* C29                                                                     *)
(***************************************************************************)
Markers ==
    {<<"d", "e", "r", "i", "v", "a", "t", "i", "v", "e">>,
     <<"i", "n", "t", "e", "g", "r", "a", "l">>, <<"d", "i", "f", "f">>,
     <<"i", "n", "t">>}

IsMarker(tok) == tok.type \in IdentifierTypes /\ tok.value \in Markers

MarkersAt(seq) == {i \in 1..Len(seq) : IsMarker(seq[i])}

FirstMarker(seq) == CHOOSE i \in MarkersAt(seq) : \A j \in MarkersAt(seq) : i <= j

\* the same tokens with every marker replaced by a function the evaluator has
AsSine(toks) ==
    [i \in 1..Len(toks) |->
        IF IsMarker(toks[i]) THEN Token("FUNCTION", <<"s", "i", "n">>, toks[i].position)
        ELSE toks[i]]

\* C29: derivative, integral, diff and int are tokenized as FUNCTION tokens;
\* the validator judges them as any other function and the converter carries
\* them into the postfix; no expression holding one evaluates successfully:
\* the call fails, with the unknown-function error naming the marker unless
\* an earlier token has failed already.
C29_MarkersNeverEvaluate ==
    /\ \A i \in MarkersAt(tokens) : tokens[i].type = "FUNCTION"
    /\ (TokensComplete /\ MarkersAt(tokens) # {}) =>
          validate_syntax(tokens).valid = validate_syntax(AsSine(tokens)).valid
    /\ (Converted /\ MarkersAt(tokens) # {}) =>
          /\ {postfix[i] : i \in MarkersAt(postfix)} = {tokens[i] : i \in MarkersAt(tokens)}
          /\ Cardinality(MarkersAt(postfix)) = Cardinality(MarkersAt(tokens))
    /\ (pc = "done" /\ MarkersAt(tokens) # {}) =>
          /\ ~result.success
          /\ InCalls("evaluate_postfix") =>
                /\ eidx <= FirstMarker(postfix)
                /\ eidx = FirstMarker(postfix) =>
                      result.error = Err("Unknown function", -1, postfix[eidx].value)
                /\ eidx < FirstMarker(postfix) => result.error.msg # "Unknown function"

\* a marker applied to a value has been reached by the evaluator
C29_Witness ==
    /\ pc = "done"
    /\ InCalls("evaluate_postfix")
    /\ MarkersAt(postfix) # {}
    /\ eidx = FirstMarker(postfix)
    /\ stack # <<>>
    /\ result.error.msg = "Unknown function"

\* a token before the marker has failed
C29_WitnessEarlier ==
    /\ pc = "done"
    /\ InCalls("evaluate_postfix")
    /\ MarkersAt(postfix) # {}
    /\ eidx < FirstMarker(postfix)

(***************************************************************************)
(* C30                                                                     *)
(***************************************************************************)
\* the arguments of the call and what the stages before have returned
CallArguments == <<expression, variables>>

StartsWith(seq, pre) ==
    Len(pre) <= Len(seq) /\ \A i \in 1..Len(pre) : seq[i] = pre[i]

\* tokenize reads the expression and only appends to its own token list
TokenizeFrame ==
    /\ CallArguments' = CallArguments
    /\ expr' = expr
    /\ StartsWith(tokens', tokens)
    /\ UNCHANGED <<output, operator_stack, tidx, postfix, stack, eidx>>

\* validate_syntax reads the tokens
ValidateFrame ==
    /\ CallArguments' = CallArguments
    /\ UNCHANGED <<expr, position, tokens, postfix, stack, eidx>>

\* parse_to_postfix writes its output, its stack and its cursor
ConvertFrame ==
    /\ CallArguments' = CallArguments
    /\ UNCHANGED <<expr, position, tokens>>
    /\ pc' = "convert" => UNCHANGED <<postfix, stack, eidx, result>>

\* evaluate_postfix writes its stack and its cursor
EvaluateFrame ==
    /\ CallArguments' = CallArguments
    /\ UNCHANGED <<expr, position, tokens, output, operator_stack, tidx, postfix>>

\* what each finished stage was given is still what the stage before returned
InputsIntact ==
    /\ TokensComplete => tokens = tokenize(expression)
    /\ Converted => postfix = parse_to_postfix(tokenize(expression))
    /\ pc = "done" => result.expression = expression

\* C30: tokenize, validate_syntax, parse_to_postfix and evaluate_postfix
\* leave the token sequence they are given and the caller's variable binding
\* unchanged, whether they return or fail; each writes only its own output,
\* stack and cursor.
C30_StagesLeaveInputsUnchanged ==
    /\ []InputsIntact
    /\ [][/\ pc = "tokenize" => TokenizeFrame
          /\ pc = "validate" => ValidateFrame
          /\ pc = "convert" => ConvertFrame
          /\ pc = "evaluate" => EvaluateFrame]_vars

\* a call with a binding that went through all four stages and failed in the
\* evaluator after some tokens were evaluated
C30_Witness ==
    /\ pc = "done"
    /\ variables.given
    /\ InCalls("evaluate_postfix")
    /\ ~result.success
    /\ eidx > 1
    /\ tokens = tokenize(expression)
    /\ postfix = parse_to_postfix(tokens)

\* the same with a successful end
C30_WitnessSuccess ==
    /\ pc = "done"
    /\ variables.given
    /\ result.success
    /\ Len(postfix) > 2
    /\ tokens = tokenize(expression)

====
